---- MODULE Spec2Model ----
(***************************************************************************)
(* Audyn capture pipeline: frame pool, SPSC frame queue, AES67 receiver    *)
(* packet handler, worker loop and RTP jitter buffer.                      *)
(*                                                                         *)
(* Threads are modelled by a program counter per thread (pc) and a record  *)
(* of locals per thread (lv).  Every load and store of a shared atomic or  *)
(* of a shared array slot is one step, so the steps of two threads         *)
(* interleave exactly as the individual memory operations of the C code.   *)
(***************************************************************************)
EXTENDS Integers, Sequences, FiniteSets, TLC

\* ------------------------------------------------------------------ bounds

\* Frames in the pool (pool_size given to audyn_frame_pool_create).
PoolSize == 2
\* Largest ring size tried for the queue (capacity given to queue_create).
MaxQ == 3
\* Ghost cap on the number of hand-outs not yet matched by a release.
MaxInFlight == 3
\* Cap on the number of accepted pushes in one run.
MaxPushes == 4

Threads == {"rx", "wk"}
Frames == 1..PoolSize
NULL == 0

VARIABLES
    \* struct audyn_frame_pool
    capacity, top, free_stack,
    \* struct audyn_audio_queue
    cap, slots, head, tail,
    \* per-thread control state and locals
    pc, lv,
    \* history: hand-outs minus releases per frame, accepted pushes, pops,
    \* and the threads that have called acquire / release
    inflight, pushed, popped, callers,
    \* struct audyn_aes_input (receiver) and the frames' sample_frames field
    aes, frame_sf,
    \* worker_ctx_t, the global stop flag and the main thread's position
    wctx, g_stop, main_pc,
    \* struct audyn_jitter_buffer and its history
    jb, jbh,
    \* struct audyn_archive_policy and its history; the clock source and
    \* layout of the archive configuration with the worker's use of them
    ap, aph, arch,
    \* struct audyn_wav_sink, struct audyn_opus_sink (each with its file)
    \* and the history of the sink calls
    wav, opus, sinkh,
    \* the value main returns (NoExit while it runs) and the history of the
    \* worker's sink writes; struct audyn_worker (core/worker.c) with its
    \* threads and its owner's position; struct audyn_pw_input
    exit_code, wkh, worker, pw,
    \* struct audyn_ptp_clock and the history of its calls
    ptp, ptph

poolVars == <<capacity, top, free_stack>>
queueVars == <<cap, slots, head, tail>>
jbVars == <<jb, jbh>>
apVars == <<ap, aph, arch>>
sinkVars == <<wav, opus, sinkh>>
procVars == <<exit_code, wkh, worker, pw>>
ptpVars == <<ptp, ptph>>
sideVars == <<apVars, sinkVars, procVars, ptpVars>>
\* everything the pool and queue operations never touch
envVars == <<aes, frame_sf, wctx, g_stop, main_pc, jbVars, sideVars>>
\* everything the jitter buffer operations never touch
baseVars == <<capacity, top, free_stack, cap, slots, head, tail, pc, lv,
              inflight, pushed, popped, callers,
              aes, frame_sf, wctx, g_stop, main_pc>>
pipeVars == <<baseVars, sideVars>>
vars == <<pipeVars, jbVars>>

\* ------------------------------------------------------------- helpers

RECURSIVE SumOver(_, _)
SumOver(f, S) ==
    IF S = {} THEN 0
    ELSE LET x == CHOOSE y \in S : TRUE IN f[x] + SumOver(f, S \ {x})

TotalInFlight == SumOver(inflight, Frames)

IsPrefix(s, t) == Len(s) <= Len(t) /\ SubSeq(t, 1, Len(s)) = s

NoLocals ==
    [t |-> 0, frame |-> NULL, head |-> 0, tail |-> 0, ptr |-> NULL,
     ret |-> 0, ra |-> "idle", qlen |-> 0, snapTail |-> 0, snapSlots |-> <<>>]

\* pc[th] := label, lv[th] := locals
Goto(th, label, locals) ==
    /\ pc' = [pc EXCEPT ![th] = label]
    /\ lv' = [lv EXCEPT ![th] = locals]

\* Return to the caller: the callee's locals die, `result` is what is left.
Return(th, result) == Goto(th, lv[th].ra, result)

\* What a finished push leaves: its result, its argument and the history
\* taken when it started and when it read head.
PushResult(l) ==
    [NoLocals EXCEPT !.ptr = l.ptr, !.qlen = l.qlen,
                     !.snapTail = l.snapTail, !.snapSlots = l.snapSlots]

\* ------------------------------------------------ receiver and worker state

\* Receiver configuration (audyn_aes_input_cfg_t as filled in by main):
\* one output channel, two samples per packet, no channel selection.
AesCfg ==
    [payload_type |-> 96, channels |-> 1, samples_per_packet |-> 2,
     stream_channels |-> 0, channel_offset |-> 0]

\* audyn_aes_input_create: counters zero, no sequence seen, no stop request,
\* no receive thread.
AesInit ==
    [stop_requested |-> FALSE, thread_started |-> FALSE,
     last_error |-> "", ptp_epoch_set |-> FALSE,
     have_seq |-> FALSE, expected_seq |-> 0,
     packets_rx |-> 0, packets_dropped |-> 0, discontinuities |-> 0,
     frames_pushed |-> 0, frames_dropped_pool_empty |-> 0,
     frames_dropped_queue_full |-> 0]

\* worker_ctx_t after main has filled it in.
WctxInit == [status |-> 0, frames_written |-> 0, sink_open |-> FALSE]

\* fcap: the frame capacity (sample_frames_per_buffer) the pool was made with.
EnvInit(fcap) ==
    /\ aes = [AesInit EXCEPT !.thread_started = TRUE]
    /\ frame_sf = [f \in Frames |-> fcap]
    /\ wctx = WctxInit
    /\ g_stop = FALSE
    /\ main_pc = "run"

\* ======================================================= jitter buffer
\* src/core/jitter_buffer.c.  Every public function holds jb->lock from its
\* first access to its return, so each call is one atomic step.  The timing
\* fields (playout_time_ns, packet_duration_ns) are read by audyn_jb_ready
\* only and are left out.

SEQ_MAX_DELTA == 1000

U16 == 2^16

\* (int16_t)x
i16(x) == LET m == x % U16 IN IF m >= 2^15 THEN m - U16 ELSE m

\* seq_compare, line 41-44: (int16_t)(a - b)
seq_compare(a, b) == i16(a - b)

JbStatsInit ==
    [packets_received |-> 0, packets_played |-> 0, packets_lost |-> 0,
     packets_late |-> 0, packets_reordered |-> 0, buffer_overflows |-> 0,
     current_depth |-> 0, max_depth |-> 0]

\* audyn_jb_create, line 75-138: slot count and loss threshold from the
\* configuration; all slots invalid, nothing received.
audyn_jb_create(cfg) ==
    LET ppm0 == cfg.sample_rate \div (cfg.samples_per_packet * 1000)
        packets_per_ms == IF ppm0 = 0 THEN 1 ELSE ppm0
        want == packets_per_ms * cfg.depth_ms * 2
        size == IF want < 16 THEN 16 ELSE IF want > 1024 THEN 1024 ELSE want
    IN  [buffer_size |-> size,
         loss_threshold |-> IF want < 4 THEN 4 ELSE want,
         packets |-> [i \in 0..(size - 1) |-> [valid |-> FALSE, seq |-> 0]],
         initialized |-> FALSE, next_seq |-> 0, highest_seq |-> 0,
         stats |-> JbStatsInit]

\* Configurations tried: 48 kHz, 48 samples per packet (one packet per
\* millisecond), depth_ms from JbDepths.
JbCfg(d) ==
    [sample_rate |-> 48000, channels |-> 2, samples_per_packet |-> 48,
     depth_ms |-> d]

\* seq_to_index, line 164-167
seq_to_index(j, seq) == seq % j.buffer_size

\* The slot of `seq` holds that packet.
JbHolds(j, seq) ==
    LET slot == j.packets[seq_to_index(j, seq)]
    IN  slot.valid /\ slot.seq = seq

\* Mutant: the reset clears the cumulative counters as well.
jb_reset_unlocked_ClearStats(j) ==
    [j EXCEPT !.packets = [i \in DOMAIN @ |-> [@[i] EXCEPT !.valid = FALSE]],
              !.initialized = FALSE, !.next_seq = 0, !.highest_seq = 0,
              !.stats = JbStatsInit]

\* jb_reset_unlocked, line 388-404
jb_reset_unlocked(j) ==
    [j EXCEPT !.packets = [i \in DOMAIN @ |-> [@[i] EXCEPT !.valid = FALSE]],
              !.initialized = FALSE, !.next_seq = 0, !.highest_seq = 0,
              !.stats.current_depth = 0]

\* insert line 194-197 and 215-218: anchor the window on this packet.
JbAnchor(j, seq) ==
    [j EXCEPT !.next_seq = seq, !.highest_seq = seq, !.initialized = TRUE]

\* One iteration of the overflow loop, line 241-248.
JbSkipOne(j) ==
    LET skip_index == seq_to_index(j, j.next_seq)
        missed == ~JbHolds(j, j.next_seq)
    IN  [j EXCEPT !.stats.packets_lost = IF missed THEN @ + 1 ELSE @,
                  !.packets[skip_index].valid = FALSE,
                  !.next_seq = (@ + 1) % U16]

RECURSIVE JbSkipLoop(_, _)
JbSkipLoop(j, n) == IF n = 0 THEN j ELSE JbSkipLoop(JbSkipOne(j), n - 1)

\* The sequence numbers the first n iterations count in packets_lost.
RECURSIVE JbSkipMissed(_, _)
JbSkipMissed(j, n) ==
    IF n = 0 THEN {}
    ELSE (IF JbHolds(j, j.next_seq) THEN {} ELSE {j.next_seq})
         \cup JbSkipMissed(JbSkipOne(j), n - 1)

\* The whole overflow loop, line 240-249.  After buffer_size iterations
\* every slot is invalid, so each further iteration only counts a loss and
\* moves next_seq.
JbAdvance(j, advance_count) ==
    LET m == IF advance_count < j.buffer_size THEN advance_count
             ELSE j.buffer_size
        rest == advance_count - m
    IN  [JbSkipLoop(j, m) EXCEPT !.stats.packets_lost = @ + rest,
                                 !.next_seq = (@ + rest) % U16]

\* audyn_jb_insert, line 172-290, on buffer state j.  jb is the state it
\* leaves; the other fields say what it did: rejected as late, restarted
\* the stream, how far it advanced next_seq from where, and which sequence
\* numbers it counted in packets_lost one at a time.
JbInsertStep(j0, seq) ==
    LET j1 == [j0 EXCEPT !.stats.packets_received = @ + 1]
        j2 == IF ~j1.initialized THEN JbAnchor(j1, seq) ELSE j1
        delta_from_next == seq_compare(seq, j2.next_seq)
        late == delta_from_next < 0 /\ delta_from_next > -SEQ_MAX_DELTA
        restart == delta_from_next < 0 /\ ~late
        j3 == IF restart THEN JbAnchor(jb_reset_unlocked(j2), seq) ELSE j2
        delta_from_highest == seq_compare(seq, j3.highest_seq)
        j4 == IF delta_from_highest < 0 /\ delta_from_highest > -SEQ_MAX_DELTA
                THEN [j3 EXCEPT !.stats.packets_reordered = @ + 1]
                ELSE IF delta_from_highest > 0
                       THEN [j3 EXCEPT !.highest_seq = seq]
                       ELSE j3
        delta_ahead == seq_compare(seq, j4.next_seq)
        overflow == delta_ahead >= i16(j4.buffer_size)
        advance_count == IF overflow
                           THEN (delta_ahead - i16(j4.buffer_size) + 1) % U16
                           ELSE 0
        j5 == IF overflow
                THEN [JbAdvance(j4, advance_count)
                        EXCEPT !.stats.buffer_overflows = @ + 1]
                ELSE j4
        index == seq_to_index(j5, seq)
        slot == j5.packets[index]
        duplicate == slot.valid /\ slot.seq = seq
        collision == slot.valid /\ slot.seq # seq
        j6 == [j5 EXCEPT !.stats.packets_lost = IF collision THEN @ + 1 ELSE @,
                         !.packets[index] = [valid |-> TRUE, seq |-> seq]]
        depth0 == seq_compare(j6.highest_seq, j6.next_seq) + 1
        depth == IF depth0 < 0 THEN 0 ELSE depth0
        j7 == [j6 EXCEPT !.stats.current_depth = depth,
                         !.stats.max_depth = IF depth > @ THEN depth ELSE @]
        firstN == IF advance_count < j4.buffer_size THEN advance_count
                  ELSE j4.buffer_size
    IN  IF late
          THEN [jb |-> [j2 EXCEPT !.stats.packets_late = @ + 1], ret |-> -1,
                late |-> TRUE, restart |-> FALSE, advance_count |-> 0,
                advance_from |-> j2.next_seq, missed |-> {}, overwritten |-> {}]
          ELSE [jb |-> IF duplicate THEN j5 ELSE j7, ret |-> 0,
                late |-> FALSE, restart |-> restart,
                advance_count |-> advance_count,
                advance_from |-> j4.next_seq,
                missed |-> JbSkipMissed(j4, firstN),
                overwritten |-> IF collision THEN {slot.seq} ELSE {}]

audyn_jb_insert(j, seq) == JbInsertStep(j, seq).jb

\* audyn_jb_get line 308-311: the expected packet is in its slot.
JbGetPlays(j) == j.initialized /\ JbHolds(j, j.next_seq)

\* Mutant: a missing packet is given up as soon as a later one has arrived.
JbGetSkips_NoThreshold(j) ==
    /\ j.initialized
    /\ ~JbHolds(j, j.next_seq)
    /\ seq_compare(j.highest_seq, j.next_seq) > 0

\* audyn_jb_get line 327-329: the missing packet is given up.
JbGetSkips(j) ==
    /\ j.initialized
    /\ ~JbHolds(j, j.next_seq)
    /\ seq_compare(j.highest_seq, j.next_seq) > i16(j.loss_threshold)

\* Mutant: a played packet leaves next_seq where it was.
audyn_jb_get_NoAdvance(j) ==
    IF JbGetPlays(j)
      THEN [j EXCEPT !.packets[seq_to_index(j, j.next_seq)].valid = FALSE,
                     !.stats.packets_played = @ + 1]
    ELSE IF JbGetSkips(j)
      THEN [j EXCEPT !.stats.packets_lost = @ + 1,
                     !.next_seq = (@ + 1) % U16]
    ELSE j

\* audyn_jb_get, line 295-341: the state it leaves.
audyn_jb_get(j) ==
    IF JbGetPlays(j)
      THEN LET j1 == [j EXCEPT
                        !.packets[seq_to_index(j, j.next_seq)].valid = FALSE,
                        !.next_seq = (@ + 1) % U16,
                        !.stats.packets_played = @ + 1]
               depth0 == seq_compare(j1.highest_seq, j1.next_seq) + 1
           IN  [j1 EXCEPT !.stats.current_depth =
                              IF depth0 < 0 THEN 0 ELSE depth0]
    ELSE IF JbGetSkips(j)
      THEN [j EXCEPT !.stats.packets_lost = @ + 1,
                     !.next_seq = (@ + 1) % U16]
    ELSE j

\* History of the jitter buffer since the last reset or restart: the
\* packets still to be inserted (scripted streams), inserts and resets
\* done, the sequence numbers received, how often each of them was counted
\* in packets_lost / packets_played / packets_late while or after it was
\* received, the sequence numbers returned by get, how far next_seq has
\* moved since the last returned packet, how far it had moved between
\* the last two returned packets, and the slot index and sequence number
\* of the packet the caller holds: the one the last call of get returned
\* (<<>> when that call returned none).
JbhInit(script) ==
    [feed |-> script, ins |-> 0, resets |-> 0, rcvd |-> {},
     counted |-> [s \in {} |-> 0], returned |-> <<>>, adv |-> 0, steps |-> 0,
     held |-> <<>>]

\* A reset or restart starts a new stream.
JbhEpoch(h) ==
    [h EXCEPT !.rcvd = {}, !.counted = [s \in {} |-> 0], !.returned = <<>>,
              !.adv = 0, !.steps = 0]

\* Where the jitter buffer is not exercised: created and left alone.
JbIdle ==
    /\ jb = audyn_jb_create(JbCfg(4))
    /\ jbh = JbhInit(<<>>)

\* ------------------------------------------------ archive policy: the code

\* A uint64_t count of nanoseconds, written in base NS_PER_SEC so that every
\* digit stays a small integer: value = (hi * NS_PER_SEC + sec) * NS_PER_SEC
\* + nsec.  hi is 0 for every time of day the clock can return.
NS_PER_SEC == 1000000000
SEC_PER_DAY == 24 * 3600

Ns(sec, nsec) == [hi |-> 0, sec |-> sec, nsec |-> nsec]
UINT64_MAX_NS == [hi |-> 18, sec |-> 446744073, nsec |-> 709551615]

\* a >= b on uint64_t.
NsGe(a, b) ==
    \/ a.hi > b.hi
    \/ a.hi = b.hi /\ a.sec > b.sec
    \/ a.hi = b.hi /\ a.sec = b.sec /\ a.nsec >= b.nsec

\* a + (uint64_t)period_sec * NS_PER_SEC.
NsAddSec(a, period_sec) ==
    [hi |-> a.hi + ((a.sec + period_sec) \div NS_PER_SEC),
     sec |-> (a.sec + period_sec) % NS_PER_SEC,
     nsec |-> a.nsec]

\* b - a, for b >= a.
NsSub(b, a) ==
    LET n == b.nsec - a.nsec
        borrow == IF n < 0 THEN 1 ELSE 0
        s == b.sec - a.sec - borrow
        borrow2 == IF s < 0 THEN 1 ELSE 0
    IN [hi |-> b.hi - a.hi - borrow2,
        sec |-> s + borrow2 * NS_PER_SEC,
        nsec |-> n + borrow * NS_PER_SEC]

\* ns_to_tm with the UTC clock (gmtime_r): the calendar day is kept as a day
\* number, the time of day is split into its fields.
ns_to_tm(ns) ==
    LET sec == ns.sec
        sod == sec % SEC_PER_DAY
    IN [ret |-> 0,
        tm |-> [tm_day |-> sec \div SEC_PER_DAY,
                tm_hour |-> sod \div 3600,
                tm_min |-> (sod % 3600) \div 60,
                tm_sec |-> sod % 60],
        csec |-> ns.nsec \div 10000000]

\* tm_to_ns with the UTC clock (timegm).
tm_to_ns(tm) ==
    Ns(tm.tm_day * SEC_PER_DAY + tm.tm_hour * 3600 + tm.tm_min * 60 + tm.tm_sec, 0)

\* The period start written without its end moved on by the period.
calculate_period_boundary_NoSpan(now_ns, period_sec) ==
    IF period_sec = 0
    THEN [ret |-> 0, start |-> Ns(0, 0), end |-> UINT64_MAX_NS,
          tm |-> ns_to_tm(now_ns).tm, csec |-> ns_to_tm(now_ns).csec]
    ELSE LET tm == ns_to_tm(now_ns).tm
             ssm == tm.tm_hour * 3600 + tm.tm_min * 60 + tm.tm_sec
             pss == (ssm \div period_sec) * period_sec
             period_tm == [tm EXCEPT !.tm_hour = pss \div 3600,
                                     !.tm_min = (pss % 3600) \div 60,
                                     !.tm_sec = pss % 60]
             start_ns == tm_to_ns(period_tm)
         IN [ret |-> 0, start |-> start_ns, end |-> start_ns,
             tm |-> period_tm, csec |-> 0]

calculate_period_boundary(now_ns, period_sec) ==
    IF period_sec = 0
    THEN [ret |-> 0, start |-> Ns(0, 0), end |-> UINT64_MAX_NS,
          tm |-> ns_to_tm(now_ns).tm, csec |-> ns_to_tm(now_ns).csec]
    ELSE LET tm == ns_to_tm(now_ns).tm
             sec_since_midnight == tm.tm_hour * 3600 + tm.tm_min * 60 + tm.tm_sec
             period_index == sec_since_midnight \div period_sec
             period_start_sec == period_index * period_sec
             period_tm == [tm EXCEPT !.tm_hour = period_start_sec \div 3600,
                                     !.tm_min = (period_start_sec % 3600) \div 60,
                                     !.tm_sec = period_start_sec % 60]
             start_ns == tm_to_ns(period_tm)
         IN IF start_ns = Ns(0, 0) /\ period_start_sec # 0
            THEN [ret |-> -1, start |-> Ns(0, 0), end |-> Ns(0, 0),
                  tm |-> period_tm, csec |-> 0]
            ELSE [ret |-> 0, start |-> start_ns,
                  end |-> NsAddSec(start_ns, period_sec),
                  tm |-> period_tm, csec |-> 0]

audyn_archive_policy_create(rotation_period_sec) ==
    [rotation_period_sec |-> rotation_period_sec,
     initialized |-> 0,
     current_period_ns |-> Ns(0, 0),
     next_boundary_ns |-> Ns(0, 0),
     current_tm |-> [tm_day |-> 0, tm_hour |-> 0, tm_min |-> 0, tm_sec |-> 0],
     current_centisec |-> 0,
     rotations |-> 0,
     paths_generated |-> 0]

\* The boundary test made against the start of the period, not its end.
audyn_archive_policy_should_rotate_WrongField(p, now_ns) ==
    IF p.initialized = 0 THEN 1
    ELSE IF p.rotation_period_sec = 0 THEN 0
    ELSE IF NsGe(now_ns, p.current_period_ns) THEN 1
    ELSE 0

audyn_archive_policy_should_rotate(p, now_ns) ==
    IF p.initialized = 0 THEN 1
    ELSE IF p.rotation_period_sec = 0 THEN 0
    ELSE IF NsGe(now_ns, p.next_boundary_ns) THEN 1
    ELSE 0

\* audyn_archive_policy_next_path: path_ok stands for the outcome of the path
\* formatting and of mkdir_recursive.  Returns the policy and the result.
audyn_archive_policy_next_path(p, now_ns, path_ok) ==
    LET b == calculate_period_boundary(now_ns, p.rotation_period_sec)
    IN IF b.ret # 0 \/ ~path_ok
       THEN [p |-> p, ret |-> -1]
       ELSE [p |-> [p EXCEPT !.paths_generated = @ + 1,
                             !.current_period_ns = b.start,
                             !.next_boundary_ns = b.end,
                             !.current_tm = b.tm,
                             !.current_centisec = b.csec],
             ret |-> 0]

\* advance that counts the rotation but leaves the initialized flag alone.
audyn_archive_policy_advance_NoInit(p) ==
    [p EXCEPT !.rotations = @ + 1]

audyn_archive_policy_advance(p) ==
    [p EXCEPT !.initialized = 1, !.rotations = @ + 1]

\* History of the calls made on the policy, and the archive-mode fields of
\* worker_ctx_t (ctx).  rets: the should_rotate results in call order.  trues:
\* the period starts for which should_rotate returned true since the last
\* advance; repeat: one of them was returned twice.  path_now: the time given
\* to the last successful next_path; committed: advance has been called since
\* and next_path has not.  armed: should_rotate returned true since the last
\* advance.  last: time and result of a should_rotate call that no next_path
\* or advance has followed.  shadow: the policy as it would be had every
\* advance made while not armed been left out.
ApHistInit ==
    [calls |-> 0, rets |-> <<>>, trues |-> {}, repeat |-> FALSE,
     path_now |-> <<>>, committed |-> FALSE, armed |-> FALSE,
     last |-> <<>>, shadow |-> audyn_archive_policy_create(0),
     ctx |-> [sink_open |-> FALSE, rotations |-> 0, files_written |-> 0,
              status |-> 0]]

\* The clock source and layout of the archive configuration
\* (--archive-clock, --archive-layout); what the last call of
\* get_current_time_ns read and returned: the system realtime clock, the PTP
\* clock, and the time handed to the policy; and the files opened so far,
\* each as <<period start, path>>.
ArchInit(clock_source, layout) ==
    [clock_source |-> clock_source, layout |-> layout, realtime |-> <<>>,
     ptp_tai |-> <<>>, now |-> <<>>, opened |-> {}]

ApIdle ==
    /\ ap = audyn_archive_policy_create(0)
    /\ aph = ApHistInit
    /\ arch = ArchInit("utc", "flat")

\* ----------------------------------------------------- file sinks: the code

\* A uint32_t / uint64_t count of bytes, samples or frames, written in base
\* 2^16 (value = hi * 2^16 + lo) so that values around 2^32 can be computed.
Bn(hi, lo) == [hi |-> hi + (lo \div U16), lo |-> lo % U16]
BnAdd(a, b) == Bn(a.hi + b.hi, a.lo + b.lo)
BnMul(a, k) == Bn(a.hi * k, a.lo * k)
BnGt(a, b) == a.hi > b.hi \/ (a.hi = b.hi /\ a.lo > b.lo)
\* (uint32_t)a
BnU32(a) == [hi |-> a.hi % U16, lo |-> a.lo]
\* 0xFFFFFFFF
UINT32_MAX_BN == [hi |-> U16 - 1, lo |-> U16 - 1]

WAV_MAX_CHANNELS == 32
\* enum { CHUNK = 4096 } in audyn_wav_sink_write, in samples.
CHUNK == 4096

\* struct audyn_wav_sink after audyn_wav_sink_create, together with the file
\* it writes: whether the file exists, the two size fields of its header
\* (offsets 4 and 40) and the number of sample bytes after the header.
audyn_wav_sink_create(enable_fsync) ==
    [cfg |-> [enable_fsync |-> enable_fsync],
     fp |-> FALSE,
     sample_rate |-> 0,
     channels |-> 0,
     bytes_written |-> Bn(0, 0),
     stats |-> [frames_written |-> Bn(0, 0), bytes_written |-> Bn(0, 0),
                size_limit_hit |-> 0],
     file |-> [exists |-> FALSE, riff_size |-> Bn(0, 0),
               data_size |-> Bn(0, 0), data_len |-> Bn(0, 0)]]

\* audyn_wav_sink_close.  io names the library call that fails, if any:
\* "flush" (the first fflush), "patch_riff", "patch_data" (fseek or
\* write_u32le), or "ok".  Returns the sink and the result.
audyn_wav_sink_close(s, io) ==
    LET shut == [s EXCEPT !.fp = FALSE]
        data_size == BnU32(s.bytes_written)
        riff_size == BnU32(BnAdd(Bn(0, 4 + (8 + 16) + 8), data_size))
    IN IF ~s.fp THEN [s |-> s, ret |-> -1]
       ELSE IF io = "flush" THEN [s |-> shut, ret |-> -1]
       ELSE IF BnGt(s.bytes_written, UINT32_MAX_BN) THEN [s |-> shut, ret |-> -1]
       ELSE IF io = "patch_riff" THEN [s |-> shut, ret |-> -1]
       ELSE IF io = "patch_data"
         THEN [s |-> [shut EXCEPT !.file.riff_size = riff_size], ret |-> -1]
       ELSE [s |-> [shut EXCEPT !.file.riff_size = riff_size,
                                !.file.data_size = data_size],
             ret |-> 0]

\* audyn_wav_sink_open with a valid path and sample rate.  io: "fopen",
\* "header" (write_header_placeholder) or "ok".
audyn_wav_sink_open(s, sample_rate, channels, io) ==
    LET s1 == IF s.fp THEN audyn_wav_sink_close(s, "ok").s ELSE s
        fresh == [exists |-> TRUE, riff_size |-> Bn(0, 0),
                  data_size |-> Bn(0, 0), data_len |-> Bn(0, 0)]
    IN IF channels = 0 \/ channels > WAV_MAX_CHANNELS THEN [s |-> s, ret |-> -1]
       ELSE IF io = "fopen" THEN [s |-> s1, ret |-> -1]
       ELSE IF io = "header"
         THEN [s |-> [s1 EXCEPT !.sample_rate = sample_rate,
                                !.channels = channels,
                                !.bytes_written = Bn(0, 0),
                                !.stats = audyn_wav_sink_create(0).stats,
                                !.file = fresh],
               ret |-> -1]
       ELSE [s |-> [s1 EXCEPT !.fp = TRUE,
                              !.sample_rate = sample_rate,
                              !.channels = channels,
                              !.bytes_written = Bn(0, 0),
                              !.stats = audyn_wav_sink_create(0).stats,
                              !.file = fresh],
             ret |-> 0]

\* The size test made on the sum truncated to 32 bits.
audyn_wav_sink_write_Wrap32(s, frames, channels, io) ==
    LET samples == BnMul(frames, channels)
        add_bytes == BnMul(samples, 2)
        total == BnAdd(s.bytes_written, add_bytes)
    IN IF ~s.fp \/ channels # s.channels THEN [s |-> s, ret |-> -1]
       ELSE IF frames = Bn(0, 0) THEN [s |-> s, ret |-> 0]
       ELSE IF BnGt(BnU32(total), UINT32_MAX_BN)
         THEN [s |-> [s EXCEPT !.stats.size_limit_hit = 1], ret |-> -1]
       ELSE [s |-> [s EXCEPT !.bytes_written = total,
                             !.file.data_len = BnAdd(@, add_bytes),
                             !.stats.frames_written = BnAdd(@, frames),
                             !.stats.bytes_written = total],
             ret |-> 0]

\* audyn_wav_sink_write with non-NULL data.  frames is a Bn; frames * channels
\* always fits the 64-bit size_t.  io: "fwrite1"
\* (fwrite of the first chunk fails), "fwrite2" (of the second chunk, when
\* there is one), "sync" (audyn_wav_sink_sync fails, when fsync is enabled)
\* or "ok".  A failed fwrite is taken to have put none of its chunk into the
\* file.
audyn_wav_sink_write(s, frames, channels, io) ==
    LET samples == BnMul(frames, channels)
        add_bytes == BnMul(samples, 2)
        total == BnAdd(s.bytes_written, add_bytes)
        chunk_bytes == Bn(0, CHUNK * 2)
    IN IF ~s.fp \/ channels # s.channels THEN [s |-> s, ret |-> -1]
       ELSE IF frames = Bn(0, 0) THEN [s |-> s, ret |-> 0]
       ELSE IF BnGt(total, UINT32_MAX_BN)
         THEN [s |-> [s EXCEPT !.stats.size_limit_hit = 1], ret |-> -1]
       ELSE IF io = "fwrite1" THEN [s |-> s, ret |-> -1]
       ELSE IF io = "fwrite2" /\ BnGt(samples, Bn(0, CHUNK))
         THEN [s |-> [s EXCEPT !.bytes_written = BnAdd(@, chunk_bytes),
                               !.file.data_len = BnAdd(@, chunk_bytes)],
               ret |-> -1]
       ELSE [s |-> [s EXCEPT !.bytes_written = total,
                             !.file.data_len = BnAdd(@, add_bytes),
                             !.stats.frames_written = BnAdd(@, frames),
                             !.stats.bytes_written = total],
             ret |-> IF s.cfg.enable_fsync = 1 /\ io = "sync" THEN -1 ELSE 0]

\* History of the sink calls: the number of calls, and for the last call on
\* each sink (a sequence of length one once there is one) its name, its
\* result, the sink before it, for a write the frames and channels given,
\* and whether the sink had been closed by an earlier close (wav_closed: a
\* close found the WAV file open and no open has been called since).
SinkHistInit ==
    [calls |-> 0, wav_last |-> <<>>, opus_last |-> <<>>, wav_closed |-> FALSE]

SinkCall(op, ret, pre, frames, channels, was_closed) ==
    <<[op |-> op, ret |-> ret, pre |-> pre, frames |-> frames,
       channels |-> channels, was_closed |-> was_closed]>>

\* Sample rates audyn_opus_sink_create accepts.
OpusRates == {8000, 12000, 16000, 24000, 48000}
FIFO_MAX_FRAMES == 48000 * 10

choose_frame_size(sample_rate) == sample_rate \div 50

\* The frame count taken as 48 kHz units whatever the sample rate.
frames_to_48k_NoScale(frames, sample_rate) == frames

frames_to_48k(frames, sample_rate) == (frames * 48000) \div sample_rate

\* struct audyn_opus_sink after a successful audyn_opus_sink_create: file
\* open, Ogg stream initialised, encoder created, OpusHead and OpusTags
\* written (write_opus_headers: packetno 0 and 1, preskip 312, granulepos
\* tracker at -preskip).  stream: the packets handed to the Ogg stream after
\* the two headers, in order.  os_ok: the Ogg stream accepts packets; libogg
\* clears the stream when ogg_stream_packetin cannot allocate, after which
\* every packetin fails.  crashed: the process has died.
audyn_opus_sink_create(sample_rate) ==
    [cfg |-> [sample_rate |-> sample_rate],
     fp |-> TRUE,
     ogg_inited |-> 1,
     enc |-> TRUE,
     fifo_len_frames |-> 0,
     frame_size |-> choose_frame_size(sample_rate),
     granulepos_48k |-> -312,
     packetno |-> 2,
     preskip_48k |-> 312,
     wrote_audio |-> 0,
     eos_written |-> 0,
     closed |-> 0,
     stats |-> [frames_in |-> 0, frames_encoded |-> 0, packets_encoded |-> 0,
                fifo_overflows |-> 0],
     stream |-> <<>>,
     os_ok |-> TRUE,
     crashed |-> FALSE]

fifo_consume_frames(s, frames) ==
    IF frames = 0 \/ frames > s.fifo_len_frames THEN s
    ELSE [s EXCEPT !.fifo_len_frames = @ - frames]

\* One encoded frame submitted to the Ogg stream (audyn_opus_sink_write
\* lines 536-546 and pad_and_encode_final lines 621-631): the granulepos
\* tracker moves on by one frame in 48 kHz units and the packet number by one.
\* io = "packetin": ogg_stream_packetin fails.
OpusSubmit(s, e_o_s, io) ==
    LET g == s.granulepos_48k + frames_to_48k(s.frame_size, s.cfg.sample_rate)
        g1 == IF g < 0 THEN 0 ELSE g
        s1 == [s EXCEPT !.granulepos_48k = g1, !.packetno = @ + 1]
    IN IF io = "packetin" \/ ~s.os_ok
         THEN [s |-> [s1 EXCEPT !.os_ok = FALSE], ret |-> -1]
         ELSE [s |-> [s1 EXCEPT !.stream = Append(@, [granulepos |-> g1,
                                                      e_o_s |-> e_o_s,
                                                      audio |-> TRUE,
                                                      packetno |-> s.packetno]),
                                !.wrote_audio = 1],
               ret |-> 0]

\* One pass of the encode loop of audyn_opus_sink_write (lines 523-566), on
\* the result r of the passes before it: nothing once the loop has returned
\* (r.ret # 0) or its condition fails.  io names the call that fails in this
\* pass: "encode" (opus_encode_float), "packetin", "flush" (flush_pages), or
\* none.
OpusEncodePass(r, io) ==
    LET s == r.s
    IN IF r.ret # 0 \/ s.fifo_len_frames < s.frame_size THEN r
       ELSE IF io = "encode" THEN [s |-> s, ret |-> -1]
       ELSE LET sub == OpusSubmit(s, 0, io)
                s2 == [sub.s EXCEPT !.stats.frames_encoded = @ + s.frame_size,
                                    !.stats.packets_encoded = @ + 1]
            IN IF sub.ret # 0 THEN sub
               ELSE IF io = "flush" THEN [s |-> s2, ret |-> -1]
               ELSE [s |-> fifo_consume_frames(s2, s.frame_size), ret |-> 0]

\* k further passes in which no call is made to fail, one after the other.
\* The passes are split in halves, and the result of the first half is bound
\* through a set before the second half starts, which keeps the evaluation
\* of a loop of several hundred passes shallow.
RECURSIVE OpusEncodePasses(_, _)
OpusEncodePasses(r, k) ==
    IF k <= 0 THEN r
    ELSE IF k = 1 THEN OpusEncodePass(r, "ok")
    ELSE CHOOSE done \in {OpusEncodePasses(half, k - (k \div 2)) :
                            half \in {OpusEncodePasses(r, k \div 2)}} : TRUE

\* The encode loop: while (fifo_len_frames >= frame_size).  Each pass
\* consumes frame_size frames, so the loop makes at most
\* fifo_len_frames / frame_size passes; io applies to the first.
OpusEncodeLoop(s, io) ==
    CHOOSE done \in {OpusEncodePasses(first, (s.fifo_len_frames \div s.frame_size) - 1) :
                       first \in {OpusEncodePass([s |-> s, ret |-> 0], io)}} : TRUE

\* The write without the FIFO limit.
audyn_opus_sink_write_NoCap(s, frames, io) ==
    IF s.closed = 1 THEN [s |-> s, ret |-> -1]
    ELSE IF frames = 0 THEN [s |-> s, ret |-> 0]
    ELSE IF io = "realloc" THEN [s |-> s, ret |-> -1]
    ELSE OpusEncodeLoop([s EXCEPT !.fifo_len_frames = @ + frames,
                                  !.stats.frames_in = @ + frames], io)

\* audyn_opus_sink_write with non-NULL data and frames far below
\* UINT32_MAX - fifo_len_frames.  io: "realloc"
\* (ensure_fifo_capacity), "encode", "packetin", "flush" or "ok".
audyn_opus_sink_write(s, frames, io) ==
    LET new_len == s.fifo_len_frames + frames
    IN IF s.closed = 1 THEN [s |-> s, ret |-> -1]
       ELSE IF frames = 0 THEN [s |-> s, ret |-> 0]
       ELSE IF new_len > FIFO_MAX_FRAMES
         THEN [s |-> [s EXCEPT !.stats.fifo_overflows = @ + 1], ret |-> -1]
       ELSE IF io = "realloc" THEN [s |-> s, ret |-> -1]
       ELSE OpusEncodeLoop([s EXCEPT !.fifo_len_frames = new_len,
                                     !.stats.frames_in = @ + frames], io)

\* write_eos_marker: an empty packet with the end-of-stream flag.
write_eos_marker(s, io) ==
    IF s.eos_written = 1 THEN s
    ELSE LET s1 == [s EXCEPT !.packetno = @ + 1]
         IN IF io = "packetin" \/ ~s.os_ok THEN [s1 EXCEPT !.os_ok = FALSE]
            ELSE [s1 EXCEPT !.stream = Append(@,
                                [granulepos |-> IF s.granulepos_48k < 0 THEN 0
                                                ELSE s.granulepos_48k,
                                 e_o_s |-> 1,
                                 audio |-> FALSE,
                                 packetno |-> s.packetno]),
                            !.eos_written = 1]

\* pad_and_encode_final.  With more than a frame left in the FIFO (a write
\* that failed before consuming), frame_size - fifo_len_frames wraps around
\* as uint32_t and the memset runs gigabytes past the buffer: the process
\* dies.
pad_and_encode_final(s, io) ==
    IF s.fifo_len_frames = 0 THEN s
    ELSE IF s.fifo_len_frames > s.frame_size THEN [s EXCEPT !.crashed = TRUE]
    ELSE LET padded == [s EXCEPT !.fifo_len_frames = s.frame_size]
             sub == OpusSubmit(padded, 1, io)
             s2 == [sub.s EXCEPT !.eos_written = 1]
         IN IF io = "encode" THEN padded
            ELSE IF sub.ret # 0 THEN sub.s
            ELSE IF io = "flush" THEN s2
            ELSE fifo_consume_frames(s2, s.frame_size)

\* audyn_opus_sink_close.  io names the call that fails inside
\* pad_and_encode_final or write_eos_marker, if any.
audyn_opus_sink_close(s, io) ==
    IF s.closed = 1 THEN [s |-> s, ret |-> 0]
    ELSE LET s1 == pad_and_encode_final(s, io)
             s2 == IF s1.wrote_audio = 1 /\ s1.eos_written = 0
                     THEN write_eos_marker(s1, io)
                     ELSE s1
         IN IF s1.crashed THEN [s |-> s1, ret |-> -1]
            ELSE [s |-> [s2 EXCEPT !.ogg_inited = 0, !.enc = FALSE,
                                   !.fp = FALSE, !.closed = 1],
                  ret |-> 0]

\* Where the sinks are not exercised.
SinkIdle ==
    /\ wav = audyn_wav_sink_create(0)
    /\ opus = audyn_opus_sink_create(48000)
    /\ sinkh = SinkHistInit

\* Archive policy and sinks at rest.
\* ============================================================ PTP clock
\* src/core/ptp_clock.c: the RTP epoch and audyn_ptp_rtp_to_ns.  An RTP
\* timestamp (uint32_t) is a Bn record, a time in ns (uint64_t) an Ns
\* record.  A count of samples (int64_t sample_delta) is held as whole
\* seconds and samples at PTP_RATE, so that sample_delta * NS_PER_SEC /
\* sample_rate is sec * 10^9 + smp * 10^9 / PTP_RATE exactly.

\* The stream's sample rate, passed as sample_rate.
PTP_RATE == 48000

\* a < b on uint32_t, and (uint32_t)(a - b).
BnLt(a, b) == BnGt(b, a)
BnSubU32(a, b) ==
    LET l == a.lo - b.lo
        h == a.hi - b.hi - (IF l < 0 THEN 1 ELSE 0)
    IN  [hi |-> h % U16, lo |-> l % U16]

\* 0x80000000U
HALF_RANGE_BN == [hi |-> 2^15, lo |-> 0]

\* sec seconds and smp samples, normalised to 0 <= smp < PTP_RATE.
Smp(sec, smp) == [sec |-> sec + (smp \div PTP_RATE), smp |-> smp % PTP_RATE]
SmpGt(a, b) == a.sec > b.sec \/ (a.sec = b.sec /\ a.smp > b.smp)
SmpOfTs(ts) ==
    Smp(ts.hi * (U16 \div PTP_RATE), ts.hi * (U16 % PTP_RATE) + ts.lo)
\* 2^32 samples: one period of the RTP timestamp.
SmpWrap == SmpOfTs([hi |-> U16, lo |-> 0])

\* INT64_MAX / NS_PER_SEC = 9223372036 samples: the largest sample_delta
\* whose product with NS_PER_SEC fits int64_t.
SMP_INT64_MAX == [sec |-> 192153, smp |-> 28036]
\* 2^64 = PTP_RATE * 384307168202282 + 15616.
NS_2_64_DIV_RATE == [hi |-> 0, sec |-> 384307, nsec |-> 168202282]
R_2_64_MOD_RATE == 15616

\* a > b and a + b on uint64_t (no carry out of 64 bits arises).
NsGt(a, b) == ~NsGe(b, a)
NsAdd(a, b) ==
    LET n == a.nsec + b.nsec
        s == a.sec + b.sec + (n \div NS_PER_SEC)
    IN  [hi |-> a.hi + b.hi + (s \div NS_PER_SEC),
         sec |-> s % NS_PER_SEC,
         nsec |-> n % NS_PER_SEC]

\* (d * NS_PER_SEC) / PTP_RATE for a sample count d >= 0 whose product fits.
NsOfSmp(d) ==
    Ns(d.sec, d.smp * (NS_PER_SEC \div PTP_RATE)
              + (d.smp * (NS_PER_SEC % PTP_RATE)) \div PTP_RATE)

\* -((d * NS_PER_SEC - 2^64) / PTP_RATE): the size of the (negative)
\* quotient when the product has wrapped round int64_t once, for
\* INT64_MAX < d * NS_PER_SEC < 2^64.
NsOfSmpWrapped(d) ==
    LET m == NS_PER_SEC % PTP_RATE
        c == d.smp * (NS_PER_SEC \div PTP_RATE)
             - ((R_2_64_MOD_RATE - d.smp * m) \div PTP_RATE)
    IN  NsSub(NS_2_64_DIV_RATE, Ns(d.sec, c))

\* audyn_ptp_clock_create: calloc, epoch_set = 0.
audyn_ptp_clock_create ==
    [epoch_set |-> 0, epoch_rtp_ts |-> Bn(0, 0), epoch_ptp_ns |-> Ns(0, 0),
     epoch_sample_rate |-> 0, last_rtp_ts |-> Bn(0, 0),
     rtp_wraparound_count |-> 0]

\* audyn_ptp_set_rtp_epoch.
audyn_ptp_set_rtp_epoch(clk, rtp_ts, ptp_ns, sample_rate) ==
    IF sample_rate = 0 THEN clk
    ELSE [epoch_set |-> 1, epoch_rtp_ts |-> rtp_ts, epoch_ptp_ns |-> ptp_ns,
          epoch_sample_rate |-> sample_rate, last_rtp_ts |-> rtp_ts,
          rtp_wraparound_count |-> 0]

\* audyn_ptp_rtp_to_ns line 273-274: the wraparound test.
PtpWrapDetected(last_rtp_ts, rtp_ts) ==
    BnLt(rtp_ts, last_rtp_ts)
    /\ BnGt(BnSubU32(last_rtp_ts, rtp_ts), HALF_RANGE_BN)

\* audyn_ptp_rtp_to_ns line 281-316, for sample_rate = PTP_RATE: the
\* conversion with the wraparound count as read.  ub names what the build
\* makes of the signed overflow of sample_delta * NS_PER_SEC: "wrap" (two's
\* complement) or "trap".  Returns the time, or trapped.
PtpConvert(clk, rtp_ts, count, ub) ==
    LET ts == SmpOfTs(rtp_ts)
        extended_rtp == Smp(count * SmpWrap.sec + ts.sec,
                            count * SmpWrap.smp + ts.smp)
        extended_epoch == SmpOfTs(clk.epoch_rtp_ts)
        neg == SmpGt(extended_epoch, extended_rtp)
        sample_delta ==
            IF neg THEN Smp(extended_epoch.sec - extended_rtp.sec,
                            extended_epoch.smp - extended_rtp.smp)
            ELSE Smp(extended_rtp.sec - extended_epoch.sec,
                     extended_rtp.smp - extended_epoch.smp)
        overflow == SmpGt(sample_delta, SMP_INT64_MAX)
        below == IF overflow THEN NsOfSmpWrapped(sample_delta)
                 ELSE NsOfSmp(sample_delta)
    IN  IF overflow /\ ub = "trap" THEN [ret |-> Ns(0, 0), trapped |-> TRUE]
        ELSE IF ~neg /\ ~overflow
          THEN [ret |-> NsAdd(clk.epoch_ptp_ns, below), trapped |-> FALSE]
        ELSE IF NsGt(below, clk.epoch_ptp_ns)
          THEN [ret |-> Ns(0, 0), trapped |-> FALSE]
        ELSE [ret |-> NsSub(clk.epoch_ptp_ns, below), trapped |-> FALSE]

\* audyn_ptp_rtp_to_ns, called with no other call in progress.
audyn_ptp_rtp_to_ns(clk, rtp_ts, sample_rate, ub) ==
    IF sample_rate = 0 \/ clk.epoch_set = 0
      THEN [clk |-> clk, ret |-> Ns(0, 0), trapped |-> FALSE]
    ELSE LET count == clk.rtp_wraparound_count
                      + (IF PtpWrapDetected(clk.last_rtp_ts, rtp_ts) THEN 1 ELSE 0)
             c2 == [clk EXCEPT !.rtp_wraparound_count = count,
                               !.last_rtp_ts = rtp_ts]
             r == PtpConvert(c2, rtp_ts, count, ub)
         IN  [clk |-> c2, ret |-> r.ret, trapped |-> r.trapped]

\* The threads that convert timestamps of one stream.
PtpCallers == {"net", "play"}

\* History of the calls: the number of calls, the last two times returned
\* since the epoch was set, whether a call trapped; per calling thread its
\* position in the stream, its place in audyn_ptp_rtp_to_ns, the count it
\* loaded, and the last two times it was given.
PtpHistInit ==
    [calls |-> 0, prev_ret |-> <<>>, last_ret |-> <<>>, trapped |-> FALSE,
     th |-> [t \in PtpCallers |->
               [pc |-> "idle", pos |-> 0, count |-> 0,
                prev_ret |-> <<>>, last_ret |-> <<>>]]]

PtpIdle == ptp = audyn_ptp_clock_create /\ ptph = PtpHistInit

\* main has not returned; no sink write has been made.
NoExit == -1
WkHistInit == [write_failed |-> FALSE, wrote_after_fail |-> FALSE]

\* Threads one worker object creates in a run.
MaxWorkerThreads == 3
WorkerThreads == 1..MaxWorkerThreads

\* audyn_worker_create: calloc, so running = started = status = 0 and the
\* thread handle is zero.  th: where each thread created by start is
\* ("none" before pthread_create, "open", "loop", "drain" inside
\* worker_main, "done" once it has returned, "joined" after pthread_join);
\* owner: "idle", "join" while audyn_worker_stop waits in pthread_join,
\* "crashed" when pthread_join was given a handle that is not a joinable
\* thread and the process died.
audyn_worker_create ==
    [running |-> 0, started |-> 0, status |-> 0, thread |-> 0,
     th |-> [t \in WorkerThreads |-> "none"], owner |-> "idle"]

\* audyn_pw_input_create: the statistics start at zero.  nframes_cap is
\* the capacity on_process found in the last frame it filled (<<>> before
\* the first).
audyn_pw_input_create ==
    [callbacks |-> 0, drops_empty |-> 0, drops_pool |-> 0, drops_queue |-> 0,
     truncations |-> 0, frames_captured |-> 0, nframes_cap |-> <<>>]

ProcIdle ==
    /\ exit_code = NoExit
    /\ wkh = WkHistInit
    /\ worker = audyn_worker_create
    /\ pw = audyn_pw_input_create

SideIdle == ApIdle /\ SinkIdle /\ ProcIdle /\ PtpIdle

\* -------------------------------------------------------- frame pool

\* audyn_frame_pool_create: all frames free, free_stack[i] = &frames[i].
PoolInit ==
    /\ capacity = PoolSize
    /\ top = PoolSize
    /\ free_stack = [i \in 0..(PoolSize - 1) |-> i + 1]
    /\ inflight = [f \in Frames |-> 0]
    /\ callers = [acq |-> {}, rel |-> {}]

\* audyn_frame_acquire, line 121-123: t = load(top); if (t == 0) return NULL.
AcqLoadTop(th) ==
    /\ pc[th] = "acq_load"
    /\ IF top = 0
         THEN Return(th, [NoLocals EXCEPT !.frame = NULL])
         ELSE Goto(th, "acq_read", [lv[th] EXCEPT !.t = top])
    /\ callers' = [callers EXCEPT !.acq = @ \cup {th}]
    /\ UNCHANGED <<envVars, poolVars, queueVars, inflight, pushed, popped>>

\* audyn_frame_acquire, line 126: frame = free_stack[t - 1].
AcqReadSlot(th) ==
    /\ pc[th] = "acq_read"
    /\ Goto(th, "acq_store", [lv[th] EXCEPT !.frame = free_stack[lv[th].t - 1]])
    /\ UNCHANGED <<envVars, callers, poolVars, queueVars, inflight, pushed, popped>>

\* audyn_frame_acquire, line 127-128: store(top, t - 1); return frame.
AcqStoreTop(th) ==
    /\ pc[th] = "acq_store"
    /\ top' = lv[th].t - 1
    /\ inflight' = [inflight EXCEPT ![lv[th].frame] = @ + 1]
    /\ Return(th, [NoLocals EXCEPT !.frame = lv[th].frame])
    /\ UNCHANGED <<envVars, callers, capacity, free_stack, queueVars, pushed, popped>>

\* audyn_frame_release, line 153-157: t = load(top); if (t >= capacity) return.
RelLoadTop(th) ==
    /\ pc[th] = "rel_load"
    /\ IF top >= capacity
         THEN /\ Return(th, NoLocals)
              /\ inflight' = [inflight EXCEPT ![lv[th].frame] = @ - 1]
         ELSE /\ Goto(th, "rel_write", [lv[th] EXCEPT !.t = top])
              /\ UNCHANGED inflight
    /\ callers' = [callers EXCEPT !.rel = @ \cup {th}]
    /\ UNCHANGED <<envVars, poolVars, queueVars, pushed, popped>>

\* audyn_frame_release, line 165: free_stack[t] = frame.
RelWriteSlot(th) ==
    /\ pc[th] = "rel_write"
    /\ free_stack' = [free_stack EXCEPT ![lv[th].t] = lv[th].frame]
    /\ Goto(th, "rel_store", lv[th])
    /\ UNCHANGED <<envVars, callers, capacity, top, queueVars, inflight, pushed, popped>>

\* audyn_frame_release, line 166: store(top, t + 1).
RelStoreTop(th) ==
    /\ pc[th] = "rel_store"
    /\ top' = lv[th].t + 1
    /\ inflight' = [inflight EXCEPT ![lv[th].frame] = @ - 1]
    /\ Return(th, NoLocals)
    /\ UNCHANGED <<envVars, callers, capacity, free_stack, queueVars, pushed, popped>>

\* -------------------------------------------------------- frame queue

next_idx(cur, c) == IF cur + 1 = c THEN 0 ELSE cur + 1

\* audyn_audio_queue_create(Q): rejects Q < 2; head = tail = 0, slots zeroed.
QueueInit(Q) ==
    /\ Q >= 2
    /\ cap = Q
    /\ slots = [i \in 0..(Q - 1) |-> NULL]
    /\ head = 0
    /\ tail = 0
    /\ pushed = <<>>
    /\ popped = <<>>

\* audyn_audio_queue_push, line 79-82: if (!ptr) return 0; tail = load(q->tail).
PushLoadTail(th) ==
    /\ pc[th] = "push_ld_tail"
    /\ IF lv[th].ptr = NULL
         THEN Return(th, [PushResult(lv[th]) EXCEPT !.ret = 0])
         ELSE Goto(th, "push_ld_head", [lv[th] EXCEPT !.tail = tail])
    /\ UNCHANGED <<envVars, callers, poolVars, queueVars, inflight, pushed, popped>>

\* Mutant: the full test without the wrap of the index.
PushIsFull_NoWrap(t, h) == t + 1 = h

\* Mutant: the full test with head and tail exchanged.
PushIsFull_Swapped(t, h) == next_idx(h, cap) = t

\* The full test of push, line 85-86: next_idx(tail, cap) == head.
PushIsFull(t, h) == next_idx(t, cap) = h

\* audyn_audio_queue_push, line 83-87: head = load(q->head); full => return 0.
PushLoadHead(th) ==
    /\ pc[th] = "push_ld_head"
    /\ LET l == [lv[th] EXCEPT !.head = head,
                               !.qlen = Len(pushed) - Len(popped)]
       IN IF PushIsFull(l.tail, l.head)
            THEN Return(th, [PushResult(l) EXCEPT !.ret = 0])
            ELSE Goto(th, "push_write", l)
    /\ UNCHANGED <<envVars, callers, poolVars, queueVars, inflight, pushed, popped>>

\* audyn_audio_queue_push, line 89: q->slots[tail] = ptr.
PushWriteSlot(th) ==
    /\ pc[th] = "push_write"
    /\ slots' = [slots EXCEPT ![lv[th].tail] = lv[th].ptr]
    /\ Goto(th, "push_store", lv[th])
    /\ UNCHANGED <<envVars, callers, poolVars, cap, head, tail, inflight, pushed, popped>>

\* audyn_audio_queue_push, line 92-93: store(q->tail, nt); return 1.
PushStoreTail(th) ==
    /\ pc[th] = "push_store"
    /\ tail' = next_idx(lv[th].tail, cap)
    /\ pushed' = Append(pushed, lv[th].ptr)
    /\ Return(th, [PushResult(lv[th]) EXCEPT !.ret = 1])
    /\ UNCHANGED <<envVars, callers, poolVars, cap, slots, head, inflight, popped>>

\* audyn_audio_queue_pop, line 101: head = load(q->head).
PopLoadHead(th) ==
    /\ pc[th] = "pop_ld_head"
    /\ Goto(th, "pop_ld_tail", [lv[th] EXCEPT !.head = head])
    /\ UNCHANGED <<envVars, callers, poolVars, queueVars, inflight, pushed, popped>>

\* audyn_audio_queue_pop, line 102-105: tail = load(q->tail); empty => NULL.
PopLoadTail(th) ==
    /\ pc[th] = "pop_ld_tail"
    /\ IF lv[th].head = tail
         THEN Return(th, [NoLocals EXCEPT !.ptr = NULL])
         ELSE Goto(th, "pop_read", [lv[th] EXCEPT !.tail = tail])
    /\ UNCHANGED <<envVars, callers, poolVars, queueVars, inflight, pushed, popped>>

\* audyn_audio_queue_pop, line 107: ptr = q->slots[head].
PopReadSlot(th) ==
    /\ pc[th] = "pop_read"
    /\ Goto(th, "pop_store", [lv[th] EXCEPT !.ptr = slots[lv[th].head]])
    /\ UNCHANGED <<envVars, callers, poolVars, queueVars, inflight, pushed, popped>>

\* audyn_audio_queue_pop, line 110-111: store(q->head, next); return ptr.
PopStoreHead(th) ==
    /\ pc[th] = "pop_store"
    /\ head' = next_idx(lv[th].head, cap)
    /\ popped' = Append(popped, lv[th].ptr)
    /\ Return(th, [NoLocals EXCEPT !.ptr = lv[th].ptr])
    /\ UNCHANGED <<envVars, callers, poolVars, cap, slots, tail, inflight, pushed>>

\* ------------------------------------------ the pool under its contract
\* One thread ("rx") only acquires, one other thread ("wk") only releases
\* frames that were handed out and not yet returned.

PoolAcquireCall ==
    /\ pc["rx"] = "idle"
    /\ TotalInFlight < MaxInFlight
    /\ Goto("rx", "acq_load", [NoLocals EXCEPT !.ra = "idle"])
    /\ UNCHANGED <<envVars, callers, poolVars, queueVars, inflight, pushed, popped>>

PoolReleaseCall ==
    /\ pc["wk"] = "idle"
    /\ \E f \in Frames :
         /\ inflight[f] > 0
         /\ Goto("wk", "rel_load", [NoLocals EXCEPT !.ra = "idle", !.frame = f])
    /\ UNCHANGED <<envVars, callers, poolVars, queueVars, inflight, pushed, popped>>

InitPool ==
    /\ JbIdle
    /\ SideIdle
    /\ PoolInit
    /\ QueueInit(2)
    /\ EnvInit(PoolSize)
    /\ pc = [th \in Threads |-> "idle"]
    /\ lv = [th \in Threads |-> NoLocals]

NextPool ==
    \/ PoolAcquireCall
    \/ AcqLoadTop("rx")
    \/ AcqReadSlot("rx")
    \/ AcqStoreTop("rx")
    \/ PoolReleaseCall
    \/ RelLoadTop("wk")
    \/ RelWriteSlot("wk")
    \/ RelStoreTop("wk")

SpecPool == InitPool /\ [][NextPool]_vars

Quiescent == pc["rx"] = "idle" /\ pc["wk"] = "idle"

\* C1: with one acquiring and one releasing thread, whenever neither
\* operation is part-way through, frames-in-flight + top = N (so the number
\* of frames in flight, #acquire - #release, never exceeds N).
C1_InFlightPlusTop ==
    Quiescent => (TotalInFlight + top = capacity /\ TotalInFlight <= capacity)

\* C2: acquire never hands out a frame that is in flight: no frame has been
\* handed out twice without a release of it in between.
C2_NoDoubleHandOut == \A f \in Frames : inflight[f] <= 1

\* ----------------------------------------- the queue under its contract
\* One producer thread ("rx") only pushes, one consumer ("wk") only pops.

\* Handles between head and tail, oldest first.
RECURSIVE RingContents(_, _)
RingContents(h, t) ==
    IF h = t THEN <<>> ELSE <<slots[h]>> \o RingContents(next_idx(h, cap), t)

QPushCall ==
    /\ pc["rx"] = "idle"
    /\ Len(pushed) < MaxPushes
    /\ \E h \in Frames \cup {NULL} :
         Goto("rx", "push_ld_tail",
              [NoLocals EXCEPT !.ra = "idle", !.ptr = h, !.ret = 1,
                               !.snapTail = tail, !.snapSlots = slots])
    /\ UNCHANGED <<envVars, callers, poolVars, queueVars, inflight, pushed, popped>>

QPopCall ==
    /\ pc["wk"] = "idle"
    /\ Goto("wk", "pop_ld_head", [NoLocals EXCEPT !.ra = "idle"])
    /\ UNCHANGED <<envVars, callers, poolVars, queueVars, inflight, pushed, popped>>

InitQueue ==
    /\ JbIdle
    /\ SideIdle
    /\ PoolInit
    /\ \E Q \in 2..MaxQ : QueueInit(Q)
    /\ EnvInit(PoolSize)
    /\ pc = [th \in Threads |-> "idle"]
    /\ lv = [th \in Threads |-> NoLocals]

NextQueue ==
    \/ QPushCall
    \/ PushLoadTail("rx")
    \/ PushLoadHead("rx")
    \/ PushWriteSlot("rx")
    \/ PushStoreTail("rx")
    \/ QPopCall
    \/ PopLoadHead("wk")
    \/ PopLoadTail("wk")
    \/ PopReadSlot("wk")
    \/ PopStoreHead("wk")

SpecQueue == InitQueue /\ [][NextQueue]_vars

\* C3: the handles returned by successful pops are a prefix of the handles
\* accepted by successful pushes, and the accepted handles not yet popped
\* are exactly the ones the ring holds between head and tail, in order.
C3_FifoPrefix ==
    /\ IsPrefix(popped, pushed)
    /\ pushed = popped \o RingContents(head, tail)
    /\ \A i \in 1..Len(popped) : popped[i] # NULL

\* Two pops have succeeded and the tail index has wrapped around the ring.
C3_Witness == Len(popped) >= 2 /\ Len(pushed) >= cap /\ cap = MaxQ

\* A push of a non-null handle has returned to its caller.
PushReturned == pc["rx"] = "idle" /\ lv["rx"].ptr # NULL

C4_Inv ==
    /\ Len(pushed) - Len(popped) <= cap - 1
    /\ PushReturned =>
         /\ (lv["rx"].ret = 0) <=> (lv["rx"].qlen = cap - 1)
         /\ lv["rx"].ret = 0 =>
              (tail = lv["rx"].snapTail /\ slots = lv["rx"].snapSlots)

\* C4: a ring of Q slots never holds more than Q-1 handles; a push is
\* rejected exactly when Q-1 handles were queued at the moment it read head;
\* a rejected push has changed neither tail nor any slot, and no step of the
\* producer ever changes head.
C4_Capacity ==
    /\ []C4_Inv
    /\ [][pc'["rx"] # pc["rx"] => head' = head]_vars

\* A push was rejected by a ring of MaxQ slots holding MaxQ-1 handles.
C4_Witness ==
    /\ PushReturned
    /\ lv["rx"].ret = 0
    /\ cap = MaxQ
    /\ Len(pushed) - Len(popped) = MaxQ - 1

\* ------------------------------------------------- receiver: handle_packet

RTP_MIN_HEADER_BYTES == 12
RTP_VERSION_EXPECTED == 2
\* Datagrams handed to handle_packet in one run.
MaxDatagrams == 3

\* A datagram: its length in bytes and its RTP header fields; extlen is the
\* extension length word, padcount the last byte of the packet.
Dg(l, c, x, e, p, n, sq) ==
    [len |-> l, version |-> RTP_VERSION_EXPECTED, pt |-> AesCfg.payload_type,
     cc |-> c, extension |-> x, extlen |-> e, padding |-> p, padcount |-> n,
     seq |-> sq]

\* The datagrams tried: for each check of handle_packet one datagram that
\* fails it and one that passes it (payload of 4 bytes = L16, 6 = L24).  The
\* sender numbers its packets consecutively: sq is the sequence number of
\* the datagram received now.
Datagrams(sq) ==
    { Dg(l, 0, 0, 0, 0, 0, sq) : l \in {8, 12, 14, 16, 18} }
    \cup { Dg(l, 1, 0, 0, 0, 0, sq) : l \in {14, 20, 22} }
    \cup { Dg(l, 0, 1, 0, 0, 0, sq) : l \in {14, 20} }
    \cup { Dg(l, 0, 1, 1, 0, 0, sq) : l \in {20, 24} }
    \cup { Dg(l, 0, 0, 0, 1, 2, sq) : l \in {12, 18} }
    \cup { Dg(16, 0, 0, 0, 1, n, sq) : n \in {0, 9} }
    \cup { [Dg(16, 0, 0, 0, 0, 0, sq) EXCEPT !.version = 1],
           [Dg(16, 0, 0, 0, 0, 0, sq) EXCEPT !.pt = 97] }

\* handle_packet, line 298-363: fixed header, CSRC list, header extension
\* and padding.  ok = FALSE where the code counts packets_dropped and
\* returns; payload_len as the code computes it.
HpHeader(d) ==
    LET off0 == RTP_MIN_HEADER_BYTES
        off1 == off0 + d.cc * 4
        off2 == IF d.extension = 1 THEN off1 + 4 + d.extlen * 4 ELSE off1
        plen == d.len - off2
    IN  IF d.len < RTP_MIN_HEADER_BYTES THEN [ok |-> FALSE, payload_len |-> 0]
        ELSE IF d.version # RTP_VERSION_EXPECTED THEN [ok |-> FALSE, payload_len |-> 0]
        ELSE IF d.pt # AesCfg.payload_type THEN [ok |-> FALSE, payload_len |-> 0]
        ELSE IF d.len < off1 THEN [ok |-> FALSE, payload_len |-> 0]
        ELSE IF d.extension = 1 /\ d.len < off1 + 4 THEN [ok |-> FALSE, payload_len |-> 0]
        ELSE IF d.extension = 1 /\ d.len < off2 THEN [ok |-> FALSE, payload_len |-> 0]
        ELSE IF d.padding = 1 /\ plen = 0 THEN [ok |-> FALSE, payload_len |-> 0]
        ELSE IF d.padding = 1 /\ (d.padcount = 0 \/ d.padcount > plen)
               THEN [ok |-> FALSE, payload_len |-> 0]
        ELSE [ok |-> TRUE,
              payload_len |-> IF d.padding = 1 THEN plen - d.padcount ELSE plen]

\* handle_packet, line 389-432: configuration checks and L16/L24 inference.
HpPayloadOk(payload_len) ==
    LET out_ch == AesCfg.channels
        spp == AesCfg.samples_per_packet
        stream_ch == IF AesCfg.stream_channels > 0
                       THEN AesCfg.stream_channels ELSE out_ch
    IN  /\ ~(out_ch = 0 \/ spp = 0)
        /\ ~(AesCfg.channel_offset + out_ch > stream_ch)
        /\ (payload_len = stream_ch * spp * 2 \/ payload_len = stream_ch * spp * 3)

\* handle_packet, line 370-387: epoch on the first parsed packet and the
\* continuity cursor (16-bit).
HpTrack(a, d) ==
    [a EXCEPT
       !.ptp_epoch_set = TRUE,
       !.have_seq = TRUE,
       !.expected_seq = (d.seq + 1) % 65536,
       !.discontinuities =
           IF a.have_seq /\ d.seq # a.expected_seq THEN @ + 1 ELSE @]

pipeHist == <<inflight, pushed, popped, callers>>

\* rx_thread_main line 534-556 and handle_packet line 295-434: one datagram
\* is received, counted in packets_rx and parsed; a malformed one is counted
\* in packets_dropped, a well-formed one goes on to audyn_frame_acquire.
RxRecv ==
    /\ pc["rx"] = "rx_loop"
    /\ ~aes.stop_requested
    /\ aes.packets_rx < MaxDatagrams
    /\ \E d \in Datagrams(aes.packets_rx % 65536) :
         LET a0 == [aes EXCEPT !.packets_rx = @ + 1]
             h == HpHeader(d)
         IN  IF ~h.ok
               THEN /\ aes' = [a0 EXCEPT !.packets_dropped = @ + 1]
                    /\ UNCHANGED <<pc, lv>>
             ELSE IF ~HpPayloadOk(h.payload_len)
               THEN /\ aes' = [HpTrack(a0, d) EXCEPT !.packets_dropped = @ + 1]
                    /\ UNCHANGED <<pc, lv>>
             ELSE /\ aes' = HpTrack(a0, d)
                  /\ Goto("rx", "acq_load", [NoLocals EXCEPT !.ra = "hp_acquired"])
    /\ UNCHANGED <<poolVars, queueVars, pipeHist, jbVars, sideVars, frame_sf, wctx, g_stop, main_pc>>

\* rx_thread_main line 534: the loop ends once a stop is requested.
RxStopSeen ==
    /\ pc["rx"] = "rx_loop"
    /\ aes.stop_requested
    /\ pc' = [pc EXCEPT !["rx"] = "rx_done"]
    /\ UNCHANGED <<poolVars, queueVars, pipeHist, jbVars, sideVars, envVars, lv>>

\* handle_packet line 435-467: pool exhausted => count and return 0;
\* incompatible shape => release and fail; else fill the frame and push it.
HpAcquired ==
    /\ pc["rx"] = "hp_acquired"
    /\ LET f == lv["rx"].frame IN
       IF f = NULL
         THEN /\ aes' = [aes EXCEPT !.frames_dropped_pool_empty = @ + 1]
              /\ Goto("rx", "rx_loop", NoLocals)
              /\ UNCHANGED frame_sf
       ELSE IF frame_sf[f] < AesCfg.samples_per_packet
         THEN /\ Goto("rx", "rel_load",
                      [NoLocals EXCEPT !.frame = f, !.ra = "hp_fatal"])
              /\ UNCHANGED <<aes, frame_sf>>
       ELSE /\ frame_sf' = [frame_sf EXCEPT ![f] = AesCfg.samples_per_packet]
            /\ Goto("rx", "push_ld_tail",
                    [NoLocals EXCEPT !.ra = "hp_pushed", !.ptr = f, !.frame = f,
                                     !.snapTail = tail, !.snapSlots = slots])
            /\ UNCHANGED aes
    /\ UNCHANGED <<poolVars, queueVars, pipeHist, jbVars, sideVars, wctx, g_stop, main_pc>>

\* Mutant: the queue-full path releases the frame without counting it.
HpPushed_NoDropCount ==
    /\ pc["rx"] = "hp_pushed"
    /\ IF lv["rx"].ret = 0
         THEN /\ UNCHANGED aes
              /\ Goto("rx", "rel_load",
                      [NoLocals EXCEPT !.frame = lv["rx"].ptr, !.ra = "rx_loop"])
         ELSE /\ aes' = [aes EXCEPT !.frames_pushed = @ + 1]
              /\ Goto("rx", "rx_loop", NoLocals)
    /\ UNCHANGED <<poolVars, queueVars, pipeHist, jbVars, sideVars, frame_sf, wctx, g_stop, main_pc>>

\* handle_packet line 469-476: queue full => count, release, return 0;
\* accepted => count frames_pushed, return 0.
HpPushed ==
    /\ pc["rx"] = "hp_pushed"
    /\ IF lv["rx"].ret = 0
         THEN /\ aes' = [aes EXCEPT !.frames_dropped_queue_full = @ + 1]
              /\ Goto("rx", "rel_load",
                      [NoLocals EXCEPT !.frame = lv["rx"].ptr, !.ra = "rx_loop"])
         ELSE /\ aes' = [aes EXCEPT !.frames_pushed = @ + 1]
              /\ Goto("rx", "rx_loop", NoLocals)
    /\ UNCHANGED <<poolVars, queueVars, pipeHist, jbVars, sideVars, frame_sf, wctx, g_stop, main_pc>>

\* handle_packet line 443-444 and rx_thread_main line 556-561: after the
\* release, set_error, return -1; the thread requests its own stop and ends.
HpFatal ==
    /\ pc["rx"] = "hp_fatal"
    /\ aes' = [aes EXCEPT !.last_error = "incompatible frame shape",
                          !.stop_requested = TRUE]
    /\ Goto("rx", "rx_done", NoLocals)
    /\ UNCHANGED <<poolVars, queueVars, pipeHist, jbVars, sideVars, frame_sf, wctx, g_stop, main_pc>>

\* -------------------------------------------------- worker: worker_main

wkRest == <<poolVars, queueVars, pipeHist, jbVars, apVars, sinkVars, ptpVars, worker, pw,
           exit_code, aes, frame_sf, g_stop, main_pc>>

\* History of write_to_sink: ok is the call's outcome.
WkHistWrite(ok) ==
    [write_failed |-> wkh.write_failed \/ ~ok,
     wrote_after_fail |-> wkh.wrote_after_fail \/ (ok /\ wkh.write_failed)]

\* worker_main line 420-439 (single-file mode): the initial open_sink.
WkOpen ==
    /\ pc["wk"] = "wk_start"
    /\ \E ok \in BOOLEAN :
         IF ok
           THEN /\ wctx' = [wctx EXCEPT !.sink_open = TRUE]
                /\ pc' = [pc EXCEPT !["wk"] = "wk_loop"]
           ELSE /\ wctx' = [wctx EXCEPT !.status = -1]
                /\ pc' = [pc EXCEPT !["wk"] = "wk_done"]
    /\ UNCHANGED <<wkRest, lv, wkh>>

\* worker_main line 442 and 451: while (!*stop_flag) ... pop.
WkLoop ==
    /\ pc["wk"] = "wk_loop"
    /\ IF g_stop
         THEN Goto("wk", "wk_drain", NoLocals)
         ELSE Goto("wk", "pop_ld_head", [NoLocals EXCEPT !.ra = "wk_popped"])
    /\ UNCHANGED <<wkRest, wctx, wkh>>

\* worker_main line 452-465: empty => sleep and retry; else write_to_sink,
\* then release; a failed write sets status and leaves the loop.
WkPopped ==
    /\ pc["wk"] = "wk_popped"
    /\ IF lv["wk"].ptr = NULL
         THEN /\ Goto("wk", "wk_loop", NoLocals)
              /\ UNCHANGED <<wctx, wkh>>
         ELSE \E ok \in BOOLEAN :
                /\ wkh' = WkHistWrite(ok)
                /\ IF ok
                  THEN /\ wctx' = [wctx EXCEPT !.frames_written = @ + 1]
                       /\ Goto("wk", "rel_load",
                               [NoLocals EXCEPT !.frame = lv["wk"].ptr,
                                                !.ra = "wk_loop"])
                  ELSE /\ wctx' = [wctx EXCEPT !.status = -1]
                       /\ Goto("wk", "rel_load",
                               [NoLocals EXCEPT !.frame = lv["wk"].ptr,
                                                !.ra = "wk_drain"])
    /\ UNCHANGED wkRest

\* worker_main line 469-470: the drain loop pops.
WkDrain ==
    /\ pc["wk"] = "wk_drain"
    /\ Goto("wk", "pop_ld_head", [NoLocals EXCEPT !.ra = "wk_drained"])
    /\ UNCHANGED <<wkRest, wctx, wkh>>

\* worker_main line 471-477: empty => close the sink and finish; else
\* write_to_sink (result ignored) and release.
WkDrained ==
    /\ pc["wk"] = "wk_drained"
    /\ IF lv["wk"].ptr = NULL
         THEN /\ wctx' = [wctx EXCEPT !.sink_open = FALSE]
              /\ Goto("wk", "wk_done", NoLocals)
              /\ UNCHANGED wkh
         ELSE \E ok \in BOOLEAN :
                /\ wkh' = WkHistWrite(ok)
                /\ wctx' = [wctx EXCEPT !.frames_written = IF ok THEN @ + 1 ELSE @]
                /\ Goto("wk", "rel_load",
                        [NoLocals EXCEPT !.frame = lv["wk"].ptr, !.ra = "wk_drain"])
    /\ UNCHANGED wkRest

\* ------------------------------------------------------- main thread

mainRest == <<poolVars, queueVars, pipeHist, jbVars, apVars, sinkVars, ptpVars, worker, pw,
             wkh, frame_sf, wctx, pc, lv>>

\* on_signal, audyn.c line 75-78: SIGINT/SIGTERM sets g_stop.
MainSignal ==
    /\ main_pc = "run"
    /\ ~g_stop
    /\ g_stop' = TRUE
    /\ UNCHANGED <<mainRest, aes, main_pc, exit_code>>

\* main loop, audyn.c line 835-843: leave on g_stop or on a worker error.
MainLoop ==
    /\ main_pc = "run"
    /\ (g_stop \/ wctx.status # 0)
    /\ main_pc' = "stop_input"
    /\ UNCHANGED <<mainRest, aes, g_stop, exit_code>>

\* audyn_aes_input_stop, aes_input.c line 729: request_stop.
MainStopInput ==
    /\ main_pc = "stop_input"
    /\ aes' = [aes EXCEPT !.stop_requested = TRUE]
    /\ main_pc' = "join_rx"
    /\ UNCHANGED <<mainRest, g_stop, exit_code>>

\* aes_input.c line 736-737 (pthread_join, thread_started = 0) and audyn.c
\* line 860: g_stop = 1.
MainJoinRx ==
    /\ main_pc = "join_rx"
    /\ pc["rx"] = "rx_done"
    /\ aes' = [aes EXCEPT !.thread_started = FALSE]
    /\ g_stop' = TRUE
    /\ main_pc' = "join_wk"
    /\ UNCHANGED <<mainRest, exit_code>>

\* audyn.c line 861-863 and 880: join the worker, then
\* return (g_stop && worker_ctx.status == 0) ? 0 : 1.
MainJoinWk ==
    /\ main_pc = "join_wk"
    /\ pc["wk"] = "wk_done"
    /\ main_pc' = "exit"
    /\ exit_code' = IF g_stop /\ wctx.status = 0 THEN 0 ELSE 1
    /\ UNCHANGED <<mainRest, aes, g_stop>>

\* ------------------------------------------------------ the pipeline

\* Frame capacities tried for the pool: smaller than, and equal to, the
\* receiver's samples_per_packet.
FrameCaps == {1, AesCfg.samples_per_packet}

InitPipe ==
    /\ JbIdle
    /\ SideIdle
    /\ PoolInit
    /\ QueueInit(2)
    /\ \E fcap \in FrameCaps : EnvInit(fcap)
    /\ pc = [th \in Threads |-> IF th = "rx" THEN "rx_loop" ELSE "wk_start"]
    /\ lv = [th \in Threads |-> NoLocals]

NextPipe ==
    \/ RxRecv
    \/ RxStopSeen
    \/ HpAcquired
    \/ HpPushed
    \/ HpFatal
    \/ WkOpen
    \/ WkLoop
    \/ WkPopped
    \/ WkDrain
    \/ WkDrained
    \/ MainSignal
    \/ MainLoop
    \/ MainStopInput
    \/ MainJoinRx
    \/ MainJoinWk
    \/ \E th \in Threads :
         \/ AcqLoadTop(th)
         \/ AcqReadSlot(th)
         \/ AcqStoreTop(th)
         \/ RelLoadTop(th)
         \/ RelWriteSlot(th)
         \/ RelStoreTop(th)
         \/ PushLoadTail(th)
         \/ PushLoadHead(th)
         \/ PushWriteSlot(th)
         \/ PushStoreTail(th)
         \/ PopLoadHead(th)
         \/ PopLoadTail(th)
         \/ PopReadSlot(th)
         \/ PopStoreHead(th)

SpecPipe == InitPipe /\ [][NextPipe]_vars

\* The receive thread is between two datagrams (or has ended).
RxBetweenPackets == pc["rx"] \in {"rx_loop", "rx_done"}

CounterSum ==
    aes.packets_dropped + aes.frames_dropped_pool_empty
    + aes.frames_dropped_queue_full + aes.frames_pushed

\* The receive thread ended on the fatal incompatible-frame-shape error.
RxFatal == pc["rx"] = "rx_done" /\ aes.last_error # ""

\* A step changes at most one of the four counters, and by one.
OneCounterStep ==
    /\ CounterSum' \in {CounterSum, CounterSum + 1}
    /\ aes'.packets_dropped \in {aes.packets_dropped, aes.packets_dropped + 1}
    /\ aes'.frames_dropped_pool_empty \in
         {aes.frames_dropped_pool_empty, aes.frames_dropped_pool_empty + 1}
    /\ aes'.frames_dropped_queue_full \in
         {aes.frames_dropped_queue_full, aes.frames_dropped_queue_full + 1}
    /\ aes'.frames_pushed \in {aes.frames_pushed, aes.frames_pushed + 1}

\* C5 as claimed: every datagram handed to handle_packet increments exactly
\* one of packets_dropped, frames_dropped_pool, frames_dropped_queue and
\* frames_pushed, by one: once a datagram is dealt with, the four counters
\* add up to the number of datagrams received.
C5_EveryDatagramCounted == RxBetweenPackets => CounterSum = aes.packets_rx

\* C5 amended: every datagram that handle_packet deals with without a fatal
\* error increments exactly one of the four counters, by one; the datagram on
\* which it fails fatally (frame of incompatible shape) increments none.
C5_NonFatalCounted ==
    /\ [](RxBetweenPackets =>
            CounterSum = aes.packets_rx - (IF RxFatal THEN 1 ELSE 0))
    /\ [][OneCounterStep]_vars

\* One datagram was pushed, one dropped on a full queue, one as malformed.
C5_Witness ==
    /\ RxBetweenPackets
    /\ aes.packets_rx = MaxDatagrams
    /\ aes.frames_dropped_queue_full >= 1
    /\ aes.frames_pushed >= 1
    /\ aes.packets_dropped >= 1

\* C6: release is called by exactly one thread and acquire by exactly one
\* thread; no second thread ever calls release on the pool.
C6_SingleReleaser ==
    Cardinality(callers.rel) <= 1 /\ Cardinality(callers.acq) <= 1

\* ------------------------------------------ jitter buffer: the calls

\* Inserts and resets in one run of the free-running buffer.
MaxJbInserts == 3
MaxJbResets == 1

\* depth_ms values tried for the scripted streams: 16 slots with threshold
\* 4 and 8, 20 slots with threshold 20.
JbDepths == {2, 4, 10}

\* Sequence numbers offered to insert, relative to next_seq: a restart, a
\* late packet, the expected one, one beyond the loss threshold, one past
\* the window, and the farthest one that still counts as ahead.
JbOffsets == {-1001, -1, 0, 10, 16, 2^15 - 1}

\* One call of audyn_jb_insert(seq); feedAfter is what is left to send.
JbDoInsert(seq, feedAfter) ==
    \E r \in {JbInsertStep(jb, seq)} :
    LET h0 == IF r.restart THEN JbhEpoch(jbh) ELSE jbh
        rc == h0.rcvd \cup {seq}
        InBulk(s) ==
            LET off == (s - r.advance_from) % U16
            IN  off >= r.jb.buffer_size /\ off < r.advance_count
        bump(s) == (IF r.late /\ s = seq THEN 1 ELSE 0)
                   + (IF s \in r.missed THEN 1 ELSE 0)
                   + (IF InBulk(s) THEN 1 ELSE 0)
                   + (IF s \in r.overwritten THEN 1 ELSE 0)
    IN  /\ jb' = r.jb
        /\ jbh' = [h0 EXCEPT
                     !.feed = feedAfter,
                     !.ins = @ + 1,
                     !.rcvd = rc,
                     !.counted = [s \in rc |->
                         (IF s \in h0.rcvd THEN h0.counted[s] ELSE 0) + bump(s)],
                     !.adv = @ + r.advance_count]
        /\ UNCHANGED pipeVars

\* The sender offers any of the sequence numbers around the window.
JbInsertAny ==
    /\ jbh.ins < MaxJbInserts
    /\ \E d \in JbOffsets : JbDoInsert((jb.next_seq + d) % U16, <<>>)

\* The sender offers the next packet of its script.
JbInsertFeed ==
    /\ jbh.feed # <<>>
    /\ JbDoInsert(Head(jbh.feed), Tail(jbh.feed))

\* One call of audyn_jb_get.
JbGet ==
    LET s == jb.next_seq
        CountOne(h) == IF s \in h.rcvd
                         THEN [h EXCEPT !.counted[s] = @ + 1] ELSE h
    IN  /\ jb' = audyn_jb_get(jb)
        /\ jbh' = IF JbGetPlays(jb)
                    THEN [CountOne(jbh) EXCEPT !.returned = Append(@, s),
                                               !.steps = jbh.adv,
                                               !.adv = 1,
                                               !.held = <<seq_to_index(jb, s), s>>]
                  ELSE IF JbGetSkips(jb)
                    THEN [CountOne(jbh) EXCEPT !.adv = @ + 1, !.held = <<>>]
                  ELSE [jbh EXCEPT !.held = <<>>]
        /\ UNCHANGED pipeVars

\* audyn_jb_reset, line 409-418.
JbReset ==
    /\ jbh.resets < MaxJbResets
    /\ jb' = jb_reset_unlocked(jb)
    /\ jbh' = [JbhEpoch(jbh) EXCEPT !.resets = @ + 1]
    /\ UNCHANGED pipeVars

\* Pool, queue and threads at rest.
BaseIdle ==
    /\ PoolInit
    /\ QueueInit(2)
    /\ EnvInit(PoolSize)
    /\ pc = [th \in Threads |-> "idle"]
    /\ lv = [th \in Threads |-> NoLocals]

\* Everything but the jitter buffer, at rest.
PipeIdle == BaseIdle /\ SideIdle

InitJB ==
    /\ PipeIdle
    /\ jb = audyn_jb_create(JbCfg(4))
    /\ jbh = JbhInit(<<>>)

NextJB ==
    \/ JbInsertAny
    \/ JbGet
    \/ JbReset

SpecJB == InitJB /\ [][NextJB]_vars

\* The last two packets returned since the last reset, and their order.
JbLastTwo == Len(jbh.returned) >= 2
JbCur == jbh.returned[Len(jbh.returned)]
JbPrev == jbh.returned[Len(jbh.returned) - 1]

C8_AccountedOnce ==
    \A s \in jbh.rcvd :
        IF JbHolds(jb, s) THEN jbh.counted[s] = 0 ELSE jbh.counted[s] = 1

\* ------------------------------------- jitter buffer: scripted streams

\* A stream without loss or reordering that starts WrapLead packets before
\* the 65535 -> 0 wrap and is WrapLen packets long.
WrapLead == 1
WrapLen == 18
WrapScript == [i \in 1..WrapLen |-> (U16 - WrapLead + i - 1) % U16]

\* Packets 0..10 followed by packet 100.
LossScript == [i \in 1..11 |-> i - 1] \o <<100>>

InitJBWrap ==
    /\ PipeIdle
    /\ \E d \in JbDepths : jb = audyn_jb_create(JbCfg(d))
    /\ jbh = JbhInit(WrapScript)

InitJBLoss ==
    /\ PipeIdle
    /\ \E d \in JbDepths : jb = audyn_jb_create(JbCfg(d))
    /\ jbh = JbhInit(LossScript)

\* The sender inserts its script in order while the consumer calls get at
\* any time.
NextJBFeed ==
    \/ JbInsertFeed
    \/ JbGet

SpecJBWrap == InitJBWrap /\ [][NextJBFeed]_vars

SpecJBLoss == InitJBLoss /\ [][NextJBFeed]_vars

\* C9: for an in-order, loss-free stream through the 65535 -> 0 wrap whose
\* consumer keeps the backlog below the slot count (no window overflow),
\* packets_lost stays 0, get has returned the packets in the order sent,
\* and every packet sent and not yet returned is still in its slot; for
\* each slot count the configurations produce.
C9_WrapLossless ==
    jb.stats.buffer_overflows = 0 =>
        /\ jb.stats.packets_lost = 0
        /\ IsPrefix(jbh.returned, WrapScript)
        /\ \A i \in (Len(jbh.returned) + 1)..jbh.ins : JbHolds(jb, WrapScript[i])

\* Everything was inserted, packet 100 is buffered, and get neither
\* returns a packet nor gives one up: it returns none from now on.
JbStalled ==
    /\ jbh.feed = <<>>
    /\ JbHolds(jb, 100)
    /\ ~JbGetPlays(jb)
    /\ ~JbGetSkips(jb)

\* C10: after 0..10 and then 100 were inserted, get never reaches a point
\* where it returns none forever while packet 100 is buffered.
C10_NeverStalls == ~JbStalled

\* Arrival order 0,1,2,4,5,3,6,7: packet 3 arrives after 4 and 5.
ReorderScript == <<0, 1, 2, 4, 5, 3, 6, 7>>

InitJBReorder ==
    /\ PipeIdle
    /\ \E d \in JbDepths : jb = audyn_jb_create(JbCfg(d))
    /\ jbh = JbhInit(ReorderScript)

SpecJBReorder == InitJBReorder /\ [][NextJBFeed]_vars

C12_PointerStable ==
    jbh.held # <<>> => jb.packets[jbh.held[1]].seq = jbh.held[2]

\* ------------------------------------------------ archive policy: the calls

\* Cap on the number of policy calls in one run.
MaxApCalls == 4
\* rotation_period_sec tried: rotation off, a period that divides the day
\* and one that does not.
ApPeriods == {0, 3600, 7000}
\* now_ns tried: both sides of the hourly and of the 7000 s boundaries, the
\* last 7000 s period of a day (84000..91000 runs past midnight) and times
\* of the following day.
ApTimes == {Ns(0, 0), Ns(3599, 999999999), Ns(3600, 0), Ns(7000, 500000000),
            Ns(84000, 0), Ns(86400, 0), Ns(90000, 0), Ns(91000, 0)}

\* Start of the rotation period now_ns lies in.
PeriodStart(now_ns) ==
    calculate_period_boundary(now_ns, ap.rotation_period_sec).start

ApHistSR(h, now_ns, ret) ==
    [h EXCEPT !.calls = @ + 1,
              !.rets = Append(@, ret),
              !.last = <<now_ns, ret>>,
              !.armed = @ \/ ret = 1,
              !.repeat = @ \/ (ret = 1 /\ PeriodStart(now_ns) \in h.trues),
              !.trues = IF ret = 1 THEN @ \cup {PeriodStart(now_ns)} ELSE @]

ApHistPath(h, now_ns, r) ==
    [h EXCEPT !.calls = @ + 1,
              !.last = <<>>,
              !.path_now = IF r.ret = 0 THEN <<now_ns>> ELSE @,
              !.committed = IF r.ret = 0 THEN FALSE ELSE @,
              !.shadow = audyn_archive_policy_next_path(@, now_ns, r.ret = 0).p]

ApHistAdvance(h) ==
    [h EXCEPT !.calls = @ + 1,
              !.last = <<>>,
              !.trues = {},
              !.armed = FALSE,
              !.committed = h.path_now # <<>>,
              !.shadow = IF h.armed THEN audyn_archive_policy_advance(@)
                         ELSE [@ EXCEPT !.rotations = @ + 1]]

ApRest == <<baseVars, jbVars, sinkVars, procVars, ptpVars>>

ApShouldRotate ==
    /\ aph.calls < MaxApCalls
    /\ \E now_ns \in ApTimes :
         aph' = ApHistSR(aph, now_ns, audyn_archive_policy_should_rotate(ap, now_ns))
    /\ UNCHANGED <<ap, arch, ApRest>>

ApNextPath ==
    /\ aph.calls < MaxApCalls
    /\ \E now_ns \in ApTimes, path_ok \in BOOLEAN :
         \E r \in {audyn_archive_policy_next_path(ap, now_ns, path_ok)} :
            /\ ap' = r.p
            /\ aph' = ApHistPath(aph, now_ns, r)
    /\ UNCHANGED <<arch, ApRest>>

ApAdvance ==
    /\ aph.calls < MaxApCalls
    /\ ap' = audyn_archive_policy_advance(ap)
    /\ aph' = ApHistAdvance(aph)
    /\ UNCHANGED <<arch, ApRest>>

\* Everything but the archive policy, at rest.
NoApIdle == BaseIdle /\ JbIdle /\ SinkIdle /\ ProcIdle /\ PtpIdle

InitAP ==
    /\ NoApIdle
    /\ \E period \in ApPeriods :
         /\ ap = audyn_archive_policy_create(period)
         /\ aph = [ApHistInit EXCEPT !.shadow = audyn_archive_policy_create(period)]
    /\ arch = ArchInit("utc", "flat")

NextAP ==
    \/ ApShouldRotate
    \/ ApNextPath
    \/ ApAdvance

SpecAP == InitAP /\ [][NextAP]_vars

\* C13 as stated: should_rotate never returns true for two calls whose
\* now_ns lie in the same rotation period unless advance was called between
\* the two calls.
C13_NoRepeatWithoutAdvance == ~aph.repeat

\* C13: once next_path has succeeded for a time t and advance has been called
\* after it, should_rotate returns false for every now_ns in the rotation
\* period of t, until next_path is called again.
C13_QuietOncePeriodCommitted ==
    (/\ aph.last # <<>>
     /\ aph.committed
     /\ PeriodStart(aph.last[1]) = PeriodStart(aph.path_now[1]))
    => aph.last[2] = 0

C13_Witness ==
    /\ ap.rotation_period_sec = 7000
    /\ aph.last # <<>>
    /\ aph.committed
    /\ aph.path_now = <<Ns(90000, 0)>>
    /\ aph.last = <<Ns(86400, 0), 0>>
    /\ Len(aph.rets) = 2
    /\ aph.rets[1] = 1

\* ------------------------------------- archive policy: the worker's protocol

\* maybe_rotate (audyn.c): one call by the worker thread.  now_ns is what
\* get_current_time_ns returns, path_ok the outcome of the path formatting
\* and mkdir inside next_path, open_ok the outcome of open_sink.  The worker
\* leaves its loop when maybe_rotate fails (status -1).
MaybeRotateAt(now_ns) ==
    /\ aph.calls < MaxApCalls
    /\ aph.ctx.status = 0
    /\ \E path_ok \in BOOLEAN, open_ok \in BOOLEAN :
         \E sr \in {audyn_archive_policy_should_rotate(ap, now_ns)} :
            LET h1 == ApHistSR(aph, now_ns, sr)
                \* close_current_sink and ctx->rotations++
                c1 == IF aph.ctx.sink_open
                        THEN [aph.ctx EXCEPT !.sink_open = FALSE,
                                             !.files_written = @ + 1,
                                             !.rotations = @ + 1]
                        ELSE aph.ctx
                r == audyn_archive_policy_next_path(ap, now_ns, path_ok)
                h2 == [ApHistPath(h1, now_ns, r) EXCEPT !.calls = h1.calls]
            IN IF sr = 0
                 THEN /\ ap' = ap
                      /\ aph' = h1
               ELSE IF r.ret # 0
                 THEN /\ ap' = ap
                      /\ aph' = [h2 EXCEPT !.ctx = [c1 EXCEPT !.status = -1]]
               ELSE IF ~open_ok
                 THEN /\ ap' = r.p
                      /\ aph' = [h2 EXCEPT !.ctx = [c1 EXCEPT !.status = -1]]
               ELSE /\ ap' = audyn_archive_policy_advance(r.p)
                    /\ aph' = [ApHistAdvance(h2) EXCEPT
                                 !.calls = h1.calls,
                                 !.ctx = [c1 EXCEPT !.sink_open = TRUE]]
    /\ UNCHANGED ApRest

maybe_rotate ==
    /\ \E now_ns \in ApTimes : MaybeRotateAt(now_ns)
    /\ UNCHANGED arch

NextAPLoop ==
    \/ maybe_rotate

SpecAPLoop == InitAP /\ [][NextAPLoop]_vars

\* C14: with rotation period 0, when the caller performs next_path and
\* advance each time should_rotate returns true, should_rotate returns true
\* on its first call and false on every later call, whatever now_ns is (a
\* failed next_path or open ends the run).
C14_PeriodZeroRotatesOnce ==
    ap.rotation_period_sec = 0
    => \A i \in 1..Len(aph.rets) : aph.rets[i] = (IF i = 1 THEN 1 ELSE 0)

C14_Witness ==
    /\ ap.rotation_period_sec = 0
    /\ aph.ctx.status = 0
    /\ aph.rets = <<1, 0, 0, 0>>
    /\ ap.rotations = 1
    /\ ap.next_boundary_ns = UINT64_MAX_NS

\* C15: with period > 0, after every successful next_path the stored state
\* satisfies next_boundary_ns - current_period_ns = period * 10^9.
C15_BoundaryOnePeriodAhead ==
    (ap.rotation_period_sec > 0 /\ ap.paths_generated >= 1)
    => /\ NsGe(ap.next_boundary_ns, ap.current_period_ns)
       /\ NsSub(ap.next_boundary_ns, ap.current_period_ns)
            = Ns(ap.rotation_period_sec, 0)

C15_Witness ==
    /\ ap.rotation_period_sec = 7000
    /\ ap.initialized = 1
    /\ ap.paths_generated = 2
    /\ ap.current_period_ns = Ns(84000, 0)
    /\ ap.next_boundary_ns = Ns(91000, 0)

\* C16: an advance made while should_rotate has not returned true since the
\* previous advance (a freshly created policy included) changes nothing but
\* the rotations counter: the policy equals, rotations aside, the one in
\* which those advances were never made, and should_rotate answers alike.
C16_SpuriousAdvanceIsNoOp ==
    /\ [ap EXCEPT !.rotations = 0] = [aph.shadow EXCEPT !.rotations = 0]
    /\ \A now_ns \in ApTimes :
          audyn_archive_policy_should_rotate(ap, now_ns)
            = audyn_archive_policy_should_rotate(aph.shadow, now_ns)

\* ------------------------------------------------------ WAV sink: the calls

\* Cap on the number of sink calls in one run.
MaxSinkCalls == 4
\* Frame counts written: none, one, more than one CHUNK of samples, 2^30 - 8
\* (2^32 - 32 bytes of stereo PCM16) and the largest uint32_t.
WavFrames == {Bn(0, 0), Bn(0, 1), Bn(0, 2049), Bn(16383, 65528),
              Bn(U16 - 1, U16 - 1)}
WavChannels == {1, 2}

WavRest == <<baseVars, jbVars, apVars, opus, procVars, ptpVars>>

WavOpen ==
    /\ sinkh.calls < MaxSinkCalls
    /\ \E channels \in WavChannels \cup {0}, io \in {"ok", "fopen", "header"} :
         \E r \in {audyn_wav_sink_open(wav, 48000, channels, io)} :
            /\ wav' = r.s
            /\ sinkh' = [sinkh EXCEPT
                           !.calls = @ + 1,
                           !.wav_closed = FALSE,
                           !.wav_last = SinkCall("open", r.ret, wav, Bn(0, 0),
                                                 channels, sinkh.wav_closed)]
    /\ UNCHANGED WavRest

WavWrite ==
    /\ sinkh.calls < MaxSinkCalls
    /\ \E frames \in WavFrames, channels \in WavChannels,
          io \in {"ok", "fwrite1", "fwrite2", "sync"} :
         \E r \in {audyn_wav_sink_write(wav, frames, channels, io)} :
            /\ wav' = r.s
            /\ sinkh' = [sinkh EXCEPT
                           !.calls = @ + 1,
                           !.wav_last = SinkCall("write", r.ret, wav, frames,
                                                 channels, sinkh.wav_closed)]
    /\ UNCHANGED WavRest

WavClose ==
    /\ sinkh.calls < MaxSinkCalls
    /\ \E io \in {"ok", "flush", "patch_riff", "patch_data"} :
         \E r \in {audyn_wav_sink_close(wav, io)} :
            /\ wav' = r.s
            /\ sinkh' = [sinkh EXCEPT
                           !.calls = @ + 1,
                           !.wav_closed = @ \/ wav.fp,
                           !.wav_last = SinkCall("close", r.ret, wav, Bn(0, 0),
                                                 0, sinkh.wav_closed)]
    /\ UNCHANGED WavRest

InitWav ==
    /\ BaseIdle
    /\ JbIdle
    /\ ApIdle
    /\ ProcIdle
    /\ PtpIdle
    /\ \E enable_fsync \in {0, 1} : wav = audyn_wav_sink_create(enable_fsync)
    /\ opus = audyn_opus_sink_create(48000)
    /\ sinkh = SinkHistInit

NextWav ==
    \/ WavOpen
    \/ WavWrite
    \/ WavClose

SpecWav == InitWav /\ [][NextWav]_vars

\* The last call made on the WAV sink.
WavLast == sinkh.wav_last[1]
\* Bytes the last write asked to add: frames * channels * sizeof(int16_t).
WavLastAdd == BnMul(BnMul(WavLast.frames, WavLast.channels), 2)

\* C17: a WAV write whose bytes would make the cumulative data size exceed
\* 2^32-1 returns failure and writes nothing: bytes_written and the file are
\* as before the call.
C17_SizeLimitWriteWritesNothing ==
    (/\ sinkh.wav_last # <<>>
     /\ WavLast.op = "write"
     /\ WavLast.pre.fp
     /\ WavLast.channels = WavLast.pre.channels
     /\ BnGt(BnAdd(WavLast.pre.bytes_written, WavLastAdd), UINT32_MAX_BN))
    => /\ WavLast.ret = -1
       /\ wav.bytes_written = WavLast.pre.bytes_written
       /\ wav.file = WavLast.pre.file

C17_Witness ==
    /\ sinkh.wav_last # <<>>
    /\ WavLast.op = "write"
    /\ WavLast.pre.fp
    /\ WavLast.pre.bytes_written = Bn(U16 - 1, U16 - 32)
    /\ WavLast.frames = Bn(0, 2049)
    /\ WavLast.channels = 2
    /\ WavLast.ret = -1
    /\ wav.stats.size_limit_hit = 1
    /\ wav.file.data_len = Bn(U16 - 1, U16 - 32)

\* C18: on a successful WAV close the RIFF size written at offset 4 equals
\* the data size + 36 and does not exceed 2^32-1, for every cumulative data
\* size write accepts.
C18_RiffSizeNoWrap ==
    (/\ sinkh.wav_last # <<>>
     /\ WavLast.op = "close"
     /\ WavLast.pre.fp
     /\ WavLast.ret = 0)
    => /\ wav.file.riff_size = BnAdd(WavLast.pre.bytes_written, Bn(0, 36))
       /\ ~BnGt(wav.file.riff_size, UINT32_MAX_BN)

\* The last call made on the Opus sink.
OpusLast == sinkh.opus_last[1]

\* C19: close on an already closed sink, WAV or Opus, returns success and
\* changes nothing.
C19_SecondCloseSucceeds ==
    /\ (/\ sinkh.wav_last # <<>>
        /\ WavLast.op = "close"
        /\ WavLast.was_closed)
       => (WavLast.ret = 0 /\ wav = WavLast.pre)
    /\ (/\ sinkh.opus_last # <<>>
        /\ OpusLast.op = "close"
        /\ OpusLast.pre.closed = 1)
       => (OpusLast.ret = 0 /\ opus = OpusLast.pre)

\* ----------------------------------------------------- Opus sink: the calls

\* Frame counts written to a sink whose encoder frame is fs frames: none,
\* half a frame, one frame, two and a half frames, and more than the FIFO
\* may hold.
OpusFrames(fs) == {0, fs \div 2, fs, 2 * fs + (fs \div 2), FIFO_MAX_FRAMES + 1}

OpusRest == <<baseVars, jbVars, apVars, wav, procVars, ptpVars>>

OpusWrite ==
    /\ sinkh.calls < MaxSinkCalls
    /\ ~opus.crashed
    /\ \E frames \in OpusFrames(opus.frame_size),
          io \in {"ok", "realloc", "encode", "packetin", "flush"} :
         \E r \in {audyn_opus_sink_write(opus, frames, io)} :
            /\ opus' = r.s
            /\ sinkh' = [sinkh EXCEPT
                           !.calls = @ + 1,
                           !.opus_last = SinkCall("write", r.ret, opus, frames,
                                                  0, opus.closed = 1)]
    /\ UNCHANGED OpusRest

OpusClose ==
    /\ sinkh.calls < MaxSinkCalls
    /\ ~opus.crashed
    /\ \E io \in {"ok", "encode", "packetin", "flush"} :
         \E r \in {audyn_opus_sink_close(opus, io)} :
            /\ opus' = r.s
            /\ sinkh' = [sinkh EXCEPT
                           !.calls = @ + 1,
                           !.opus_last = SinkCall("close", r.ret, opus, 0,
                                                  0, opus.closed = 1)]
    /\ UNCHANGED OpusRest

InitOpus ==
    /\ BaseIdle
    /\ JbIdle
    /\ ApIdle
    /\ ProcIdle
    /\ PtpIdle
    /\ wav = audyn_wav_sink_create(0)
    /\ \E sample_rate \in OpusRates : opus = audyn_opus_sink_create(sample_rate)
    /\ sinkh = SinkHistInit

NextOpus ==
    \/ OpusWrite
    \/ OpusClose

SpecOpus == InitOpus /\ [][NextOpus]_vars

\* The encoded audio packets in the Ogg stream, in order (the empty
\* end-of-stream marker is not one).
AudioPackets == SelectSeq(opus.stream, LAMBDA p : p.audio)

\* C20: the k-th audio packet emitted by the Opus sink carries granulepos
\* k * frame_size * 48000 / Fs - 312, at every supported sample rate, the
\* zero-padded final packet emitted at close included.
C20_GranuleposOfKthPacket ==
    \A k \in 1..Len(AudioPackets) :
        AudioPackets[k].granulepos
          = ((k * opus.frame_size * 48000) \div opus.cfg.sample_rate) - 312

C20_Witness ==
    /\ opus.cfg.sample_rate = 8000
    /\ opus.closed = 1
    /\ Len(AudioPackets) = 3
    /\ AudioPackets[3].e_o_s = 1
    /\ AudioPackets[3].granulepos = 2568
    /\ opus.stats.frames_in = 400

\* The second header packet (OpusTags) as write_opus_headers submits it: the
\* last packet of the stream until an audio or end-of-stream packet follows.
OpusTagsPacket == [granulepos |-> 0, e_o_s |-> 0, audio |-> FALSE, packetno |-> 1]

\* The last packet handed to the Ogg stream.
OpusLastPacket ==
    IF opus.stream = <<>> THEN OpusTagsPacket
    ELSE opus.stream[Len(opus.stream)]

\* C21: after close of an Opus sink the last packet written to the Ogg
\* stream has the end-of-stream flag set, whatever writes came before: none,
\* a partial frame only, or an exact multiple of the frame size.
C21_LastPacketHasEos ==
    opus.closed = 1 => OpusLastPacket.e_o_s = 1

\* ------------------------------------------- Opus sink: writes at the cap

\* Frame counts around the FIFO limit for a sink at sample_rate: half an
\* encoder frame, ten seconds of audio and one frame more, and one frame
\* more than FIFO_MAX_FRAMES.
OpusCapFrames(sample_rate) ==
    {choose_frame_size(sample_rate) \div 2, 10 * sample_rate,
     10 * sample_rate + 1, FIFO_MAX_FRAMES + 1}

\* Rates tried at the cap: the lowest, and the one FIFO_MAX_FRAMES is ten
\* seconds of.
OpusCapRates == {8000, 48000}

OpusWriteCap ==
    /\ sinkh.calls < MaxSinkCalls
    /\ ~opus.crashed
    /\ \E frames \in OpusCapFrames(opus.cfg.sample_rate) :
         \E r \in {audyn_opus_sink_write(opus, frames, "ok")} :
            /\ opus' = r.s
            /\ sinkh' = [sinkh EXCEPT
                           !.calls = @ + 1,
                           !.opus_last = SinkCall("write", r.ret, opus, frames,
                                                  0, opus.closed = 1)]
    /\ UNCHANGED OpusRest

InitOpusCap ==
    /\ BaseIdle
    /\ JbIdle
    /\ ApIdle
    /\ ProcIdle
    /\ PtpIdle
    /\ wav = audyn_wav_sink_create(0)
    /\ \E sample_rate \in OpusCapRates : opus = audyn_opus_sink_create(sample_rate)
    /\ sinkh = SinkHistInit

NextOpusCap ==
    \/ OpusWriteCap
    \/ OpusClose

SpecOpusCap == InitOpusCap /\ [][NextOpusCap]_vars

EXIT_SIGSEGV == 139

\* line 707-719: a failed pool or queue returns 1.  line 733-762: a failed
\* archive policy or PTP clock jumps to cleanup over the initialisation of
\* worker_ctx, worker_started, aes_in and pw_in, which cleanup then reads:
\* the process returns 0 or 1 or is killed.
MainCreate ==
    /\ main_pc = "init"
    /\ \E res \in {"ok", "pool", "queue", "policy"} :
         IF res = "ok"
           THEN /\ main_pc' = "start_worker"
                /\ UNCHANGED <<exit_code, g_stop>>
         ELSE IF res \in {"pool", "queue"}
           THEN /\ main_pc' = "exit"
                /\ exit_code' = 1
                /\ UNCHANGED g_stop
         ELSE /\ main_pc' = "exit"
              /\ g_stop' = TRUE
              /\ exit_code' \in {0, 1, EXIT_SIGSEGV}
    /\ UNCHANGED <<mainRest, aes>>

\* line 781-788: pthread_create(worker_main).  On failure cleanup reads
\* aes_in and pw_in, whose initialisation was jumped over (killed, or
\* both taken as NULL), sets g_stop, skips the join and returns
\* (g_stop && worker_ctx.status == 0) ? 0 : 1 with status still 0.
MainStartWorker ==
    /\ main_pc = "start_worker"
    /\ \E ok \in BOOLEAN :
         IF ok
           THEN /\ main_pc' = "start_input"
                /\ pc' = [pc EXCEPT !["wk"] = "wk_start"]
                /\ UNCHANGED <<exit_code, g_stop>>
           ELSE /\ main_pc' = "exit"
                /\ g_stop' = TRUE
                /\ exit_code' \in {IF wctx.status = 0 THEN 0 ELSE 1, EXIT_SIGSEGV}
                /\ UNCHANGED pc
    /\ UNCHANGED <<poolVars, queueVars, pipeHist, jbVars, apVars, sinkVars, ptpVars, worker, pw,
                   wkh, frame_sf, wctx, lv, aes>>

\* line 790-816: audyn_aes_input_create and audyn_aes_input_start
\* (aes_input.c line 690-715: stop_requested = 0, thread_started = 1).  If
\* either fails no receive thread runs; cleanup stops and destroys what
\* was created, sets g_stop and joins the worker.
MainStartInput ==
    /\ main_pc = "start_input"
    /\ \E res \in {"ok", "create", "start"} :
         IF res = "ok"
           THEN /\ main_pc' = "run"
                /\ pc' = [pc EXCEPT !["rx"] = "rx_loop"]
                /\ aes' = [aes EXCEPT !.stop_requested = FALSE,
                                      !.thread_started = TRUE]
                /\ UNCHANGED g_stop
           ELSE /\ main_pc' = "join_wk"
                /\ g_stop' = TRUE
                /\ UNCHANGED <<pc, aes>>
    /\ UNCHANGED <<poolVars, queueVars, pipeHist, jbVars, apVars, sinkVars, ptpVars, worker, pw,
                   wkh, frame_sf, wctx, lv, exit_code>>

InitMain ==
    /\ JbIdle
    /\ SideIdle
    /\ PoolInit
    /\ QueueInit(2)
    /\ aes = AesInit
    /\ \E fcap \in FrameCaps : frame_sf = [f \in Frames |-> fcap]
    /\ wctx = WctxInit
    /\ g_stop = FALSE
    /\ main_pc = "init"
    /\ pc = [th \in Threads |-> "unstarted"]
    /\ lv = [th \in Threads |-> NoLocals]

NextMain ==
    \/ MainCreate
    \/ MainStartWorker
    \/ MainStartInput
    \/ NextPipe

SpecMain == InitMain /\ [][NextMain]_vars

\* C23: whenever a sink write fails, the worker records a non-zero status
\* (and leaves its loop), and the process then terminates with a non-zero
\* exit code.
C23_WriteFailureFailsTheRun ==
    wkh.write_failed =>
        /\ wctx.status # 0
        /\ main_pc = "exit" => exit_code # 0

\* C24: the exit code is 0 only for a clean stop with no error: a run in
\* which the input was created and started, the worker thread was started
\* and the worker's status is 0.
C24_ExitZeroOnlyForCleanStop ==
    (main_pc = "exit" /\ exit_code = 0)
    => /\ pc["rx"] # "unstarted"
       /\ pc["wk"] # "unstarted"
       /\ wctx.status = 0

\* C30: once a sink write has failed, no later frame is written to the
\* sink, in the processing loop or in the shutdown drain.
C30_NoWriteAfterFailedWrite == ~wkh.wrote_after_fail

\* ------------------------------------------------ the threads, scheduled
\* Each of the three threads keeps running while it has a step to take; a
\* signal may or may not arrive.

ThreadOps(th) ==
    \/ AcqLoadTop(th)
    \/ AcqReadSlot(th)
    \/ AcqStoreTop(th)
    \/ RelLoadTop(th)
    \/ RelWriteSlot(th)
    \/ RelStoreTop(th)
    \/ PushLoadTail(th)
    \/ PushLoadHead(th)
    \/ PushWriteSlot(th)
    \/ PushStoreTail(th)
    \/ PopLoadHead(th)
    \/ PopLoadTail(th)
    \/ PopReadSlot(th)
    \/ PopStoreHead(th)

RxSteps ==
    RxRecv \/ RxStopSeen \/ HpAcquired \/ HpPushed \/ HpFatal \/ ThreadOps("rx")

WkSteps ==
    WkOpen \/ WkLoop \/ WkPopped \/ WkDrain \/ WkDrained \/ ThreadOps("wk")

MainSteps ==
    \/ MainCreate
    \/ MainStartWorker
    \/ MainStartInput
    \/ MainLoop
    \/ MainStopInput
    \/ MainJoinRx
    \/ MainJoinWk

SpecMainFair ==
    /\ InitMain
    /\ [][NextMain]_vars
    /\ WF_vars(RxSteps)
    /\ WF_vars(WkSteps)
    /\ WF_vars(MainSteps)

\* C25: whenever the receive thread ends on a fatal internal error while the
\* pipeline is running, the main thread eventually leaves its loop and
\* shuts the pipeline down.
C25_FatalReceiverStopsTheRun == RxFatal ~> (main_pc # "run")

\* audyn_aes_input_is_running, aes_input.c line 785-788.
audyn_aes_input_is_running == IF aes.thread_started THEN 1 ELSE 0

\* C26: once the receive thread has terminated on a fatal error, the
\* receiver is not reported as running.
C26_NotRunningAfterFatal == RxFatal => audyn_aes_input_is_running = 0

\* ------------------------------------------------- PTP clock: the calls

\* Calls in one run.
MaxPtpCalls == 6

\* RTP timestamps and PTP times the epoch is set to; the steps by which a
\* timestamp is ahead of its predecessor: one sample, one second, and the
\* largest step below 2^31.
PtpEpochTs == {Bn(0, 0), UINT32_MAX_BN}
PtpEpochNs == {Ns(0, 0), [hi |-> 1, sec |-> 700000000, nsec |-> 1]}
PtpSteps == {Bn(0, 1), Bn(0, PTP_RATE), [hi |-> 2^15 - 1, lo |-> U16 - 1]}

PtpRest == <<baseVars, jbVars, apVars, sinkVars, procVars>>

PtpSetEpoch ==
    /\ ptph.calls < MaxPtpCalls
    /\ ~ptph.trapped
    /\ \E rtp_ts \in PtpEpochTs, ptp_ns \in PtpEpochNs :
         ptp' = audyn_ptp_set_rtp_epoch(ptp, rtp_ts, ptp_ns, PTP_RATE)
    /\ ptph' = [ptph EXCEPT !.calls = @ + 1, !.prev_ret = <<>>, !.last_ret = <<>>]
    /\ UNCHANGED PtpRest

\* One call of audyn_ptp_rtp_to_ns with a timestamp ahead of the last one
\* passed (the epoch's, after set_rtp_epoch) by step.
PtpRtpToNs ==
    /\ ptph.calls < MaxPtpCalls
    /\ ~ptph.trapped
    /\ \E step \in PtpSteps, ub \in {"wrap", "trap"} :
         \E r \in {audyn_ptp_rtp_to_ns(ptp, BnU32(BnAdd(ptp.last_rtp_ts, step)),
                                       PTP_RATE, ub)} :
            /\ ptp' = r.clk
            /\ ptph' = [ptph EXCEPT
                          !.calls = @ + 1,
                          !.trapped = r.trapped,
                          !.prev_ret = IF r.trapped THEN @ ELSE ptph.last_ret,
                          !.last_ret = IF r.trapped THEN @ ELSE <<r.ret>>]
    /\ UNCHANGED PtpRest

InitPtp ==
    /\ BaseIdle
    /\ JbIdle
    /\ SideIdle

NextPtp ==
    \/ PtpSetEpoch
    \/ PtpRtpToNs

SpecPtp == InitPtp /\ [][NextPtp]_vars

\* C27: for timestamps passed in order, each ahead of its predecessor by
\* less than 2^31 modulo 2^32, the times returned are non-decreasing,
\* across the 2^32-1 -> 0 wrap too.
C27_MonotonicAcrossWrap ==
    (ptph.prev_ret # <<>> /\ ptph.last_ret # <<>>)
    => NsGe(ptph.last_ret[1], ptph.prev_ret[1])

\* ------------------------------- PTP clock: two threads, one stream
\* audyn_ptp_rtp_to_ns takes no lock and uses no atomics: its reads and
\* writes of last_rtp_ts and rtp_wraparound_count are separate steps that
\* interleave with those of another caller.

\* The stream: timestamps one second apart that pass the wrap between
\* position 2 and position 3.  The epoch is set at position 0; each caller
\* converts the timestamps of the positions 1, 2, ... in order.
MaxPtpPos == 4
PtpStreamTs(i) == BnU32(BnAdd(BnSubU32(Bn(0, 0), BnMul(Bn(0, PTP_RATE), 3)),
                              BnMul(Bn(0, PTP_RATE), i)))
\* Wraps the stream has made up to position i.
PtpStreamWraps(i) == IF i >= 3 THEN 1 ELSE 0

PtpTh(t) == ptph.th[t]

\* line 259-274: entry, and the wraparound test on last_rtp_ts as read.
PtpRaceTest(t) ==
    /\ PtpTh(t).pc = "idle"
    /\ PtpTh(t).pos < MaxPtpPos
    /\ ptph' = [ptph EXCEPT
                  !.calls = @ + 1,
                  !.th[t].pos = @ + 1,
                  !.th[t].pc =
                      IF PtpWrapDetected(ptp.last_rtp_ts,
                                         PtpStreamTs(PtpTh(t).pos + 1))
                        THEN "inc_load" ELSE "store_last"]
    /\ UNCHANGED <<ptp, PtpRest>>

\* line 275, rtp_wraparound_count++: the load.
PtpRaceIncLoad(t) ==
    /\ PtpTh(t).pc = "inc_load"
    /\ ptph' = [ptph EXCEPT !.th[t].count = ptp.rtp_wraparound_count,
                            !.th[t].pc = "inc_store"]
    /\ UNCHANGED <<ptp, PtpRest>>

\* line 275, rtp_wraparound_count++: the store.
PtpRaceIncStore(t) ==
    /\ PtpTh(t).pc = "inc_store"
    /\ ptp' = [ptp EXCEPT !.rtp_wraparound_count = PtpTh(t).count + 1]
    /\ ptph' = [ptph EXCEPT !.th[t].pc = "store_last"]
    /\ UNCHANGED PtpRest

\* line 279: last_rtp_ts = rtp_ts.
PtpRaceStoreLast(t) ==
    /\ PtpTh(t).pc = "store_last"
    /\ ptp' = [ptp EXCEPT !.last_rtp_ts = PtpStreamTs(PtpTh(t).pos)]
    /\ ptph' = [ptph EXCEPT !.th[t].pc = "convert"]
    /\ UNCHANGED PtpRest

\* line 282-316: the conversion with rtp_wraparound_count as read now.
PtpRaceConvert(t) ==
    /\ PtpTh(t).pc = "convert"
    /\ \E r \in {PtpConvert(ptp, PtpStreamTs(PtpTh(t).pos),
                            ptp.rtp_wraparound_count, "wrap")} :
         ptph' = [ptph EXCEPT !.th[t].pc = "idle",
                              !.th[t].prev_ret = PtpTh(t).last_ret,
                              !.th[t].last_ret = <<r.ret>>]
    /\ UNCHANGED <<ptp, PtpRest>>

InitPtpRace ==
    /\ BaseIdle
    /\ JbIdle
    /\ ApIdle
    /\ SinkIdle
    /\ ProcIdle
    /\ \E ptp_ns \in PtpEpochNs :
         ptp = audyn_ptp_set_rtp_epoch(audyn_ptp_clock_create, PtpStreamTs(0),
                                       ptp_ns, PTP_RATE)
    /\ ptph = PtpHistInit

NextPtpRace ==
    \E t \in PtpCallers :
       \/ PtpRaceTest(t)
       \/ PtpRaceIncLoad(t)
       \/ PtpRaceIncStore(t)
       \/ PtpRaceStoreLast(t)
       \/ PtpRaceConvert(t)

SpecPtpRace == InitPtpRace /\ [][NextPtpRace]_vars

\* C28: with two threads converting timestamps of one stream, under every
\* interleaving the wrap count never exceeds the wraps the stream has
\* made, it equals them once every call has returned, and each thread is
\* given non-decreasing times.
C28_SafeFromTwoThreads ==
    /\ ptp.rtp_wraparound_count <= PtpStreamWraps(MaxPtpPos)
    /\ (\A t \in PtpCallers : PtpTh(t).pc = "idle" /\ PtpTh(t).pos = MaxPtpPos)
          => ptp.rtp_wraparound_count = PtpStreamWraps(MaxPtpPos)
    /\ \A t \in PtpCallers :
          (PtpTh(t).prev_ret # <<>> /\ PtpTh(t).last_ret # <<>>)
          => NsGe(PtpTh(t).last_ret[1], PtpTh(t).prev_ret[1])

\* C29: at all times two different sequence numbers inside the active
\* window [next_seq, next_seq + buffer_size) map to different slots, also
\* when the window spans the 65535 -> 0 wrap.
C29_WindowSlotsDistinct ==
    jb.initialized =>
        \A a, b \in 0..(jb.buffer_size - 1) :
            a # b => seq_to_index(jb, (jb.next_seq + a) % U16)
                     # seq_to_index(jb, (jb.next_seq + b) % U16)

\* C31: on a clean stop every frame the producer pushed has been popped by
\* the worker (and written and released) when the process exits: none is
\* left in the queue.
C31_NoFrameStrandedOnCleanStop ==
    (main_pc = "exit" /\ exit_code = 0) => popped = pushed

\* ------------------------------------- the pool with a misbehaving owner
\* One caller at a time; release is called with any frame of the pool,
\* whether or not it is in flight (audyn_frame_release checks only the
\* frame, its pool and top >= capacity).  A frame is released at most
\* MaxDoubleRel times more often than it was acquired.

MaxDoubleRel == 1

PoolSeqAcquireCall ==
    /\ Quiescent
    /\ Goto("rx", "acq_load", [NoLocals EXCEPT !.ra = "idle"])
    /\ UNCHANGED <<envVars, callers, poolVars, queueVars, inflight, pushed, popped>>

PoolSeqReleaseCall ==
    /\ Quiescent
    /\ \E f \in Frames :
         /\ inflight[f] > -MaxDoubleRel
         /\ Goto("wk", "rel_load", [NoLocals EXCEPT !.ra = "idle", !.frame = f])
    /\ UNCHANGED <<envVars, callers, poolVars, queueVars, inflight, pushed, popped>>

NextPoolSeq ==
    \/ PoolSeqAcquireCall
    \/ AcqLoadTop("rx")
    \/ AcqReadSlot("rx")
    \/ AcqStoreTop("rx")
    \/ PoolSeqReleaseCall
    \/ RelLoadTop("wk")
    \/ RelWriteSlot("wk")
    \/ RelStoreTop("wk")

SpecPoolSeq == InitPool /\ [][NextPoolSeq]_vars

\* C32: the free stack never holds the same frame in two positions below
\* top, so a frame released twice is not handed to two later acquires.
C32_FreeStackHasNoDuplicate ==
    \A i, j \in 0..(top - 1) : i # j => free_stack[i] # free_stack[j]

\* C33: the RTP-to-PTP epoch is anchored only by a packet that passed all
\* validation: once the epoch is set, at least one received datagram was
\* not dropped as malformed.
C33_EpochAnchoredByAcceptedPacket ==
    aes.ptp_epoch_set => aes.packets_rx > aes.packets_dropped

\* ------------------------------ jitter buffer: packets behind the window

\* Inserts in one run, and the sequence numbers offered relative to
\* next_seq: the farthest one that counts as behind, both sides of the
\* SEQ_MAX_DELTA boundary, a late packet, the expected one, the one after.
MaxJbBackInserts == 3
JbBackOffsets == {-(2^15), -(SEQ_MAX_DELTA + 1), -SEQ_MAX_DELTA,
                  -(SEQ_MAX_DELTA - 1), -1, 0, 1}

JbInsertBack(d) ==
    /\ jbh.ins < MaxJbBackInserts
    /\ JbDoInsert((jb.next_seq + d) % U16, <<>>)

JbInsertBackAny == \E d \in JbBackOffsets : JbInsertBack(d)

NextJBBack ==
    \/ JbInsertBackAny
    \/ JbGet

SpecJBBack == InitJB /\ [][NextJBBack]_vars

\* How far seq is behind next_seq (0 when it is not behind, or when the
\* buffer has no next_seq yet).
JbBehind(seq) ==
    IF jb.initialized /\ seq_compare(seq, jb.next_seq) < 0
      THEN -seq_compare(seq, jb.next_seq) ELSE 0

\* What the restart leaves apart from the counters: only the packet itself
\* is stored and the window is anchored on it.
JbRestartedOn(seq) ==
    /\ JbHolds(jb', seq)
    /\ \A i \in DOMAIN jb'.packets :
         jb'.packets[i].valid => i = seq_to_index(jb', seq)
    /\ jb'.initialized
    /\ jb'.next_seq = seq
    /\ jb'.highest_seq = seq

\* The insert was refused as late: one more in packets_late, window and
\* slots as before.
JbRejectedLate ==
    /\ jb'.stats.packets_late = jb.stats.packets_late + 1
    /\ jb'.packets = jb.packets
    /\ jb'.next_seq = jb.next_seq
    /\ jb'.highest_seq = jb.highest_seq

JbKeeps(fields) == \A f \in fields : jb'.stats[f] = jb.stats[f]

\* C34 as stated: a packet more than 1000 behind next_seq restarts the
\* stream (slots invalidated, window re-anchored, packet stored) and
\* received, played, lost, late and reordered all keep their values; a
\* packet fewer than 1000 behind is rejected as late.
C34_RestartKeepsAllCounters ==
    [][\A d \in JbBackOffsets :
         LET seq == (jb.next_seq + d) % U16 IN
         JbInsertBack(d) =>
           /\ JbBehind(seq) > SEQ_MAX_DELTA =>
                /\ JbRestartedOn(seq)
                /\ JbKeeps({"packets_received", "packets_played", "packets_lost",
                            "packets_late", "packets_reordered"})
           /\ (JbBehind(seq) > 0 /\ JbBehind(seq) < SEQ_MAX_DELTA) =>
                JbRejectedLate]_vars

\* C34 (amended): as above, except that packets_received counts the
\* restarting packet itself: it goes up by one, the other four counters keep
\* their values.
C34_RestartKeepsCountersButReceived ==
    [][\A d \in JbBackOffsets :
         LET seq == (jb.next_seq + d) % U16 IN
         JbInsertBack(d) =>
           /\ JbBehind(seq) > SEQ_MAX_DELTA =>
                /\ JbRestartedOn(seq)
                /\ jb'.stats.packets_received = jb.stats.packets_received + 1
                /\ JbKeeps({"packets_played", "packets_lost",
                            "packets_late", "packets_reordered"})
           /\ (JbBehind(seq) > 0 /\ JbBehind(seq) < SEQ_MAX_DELTA) =>
                JbRejectedLate]_vars

\* A restart has happened after packets were played and rejected as late:
\* the only packet of the new stream is the one the window is anchored on.
C34_Witness ==
    /\ jb.stats.packets_played >= 1
    /\ jb.stats.packets_late >= 1
    /\ jb.stats.packets_received >= 3
    /\ jbh.rcvd = {jb.next_seq}
    /\ jb.highest_seq = jb.next_seq
    /\ JbHolds(jb, jb.next_seq)

\* extended_rtp - epoch_rtp_ts in samples, for the timestamp last converted
\* and the wraparounds counted so far.
PtpSampleDelta ==
    LET ts == SmpOfTs(ptp.last_rtp_ts)
        ep == SmpOfTs(ptp.epoch_rtp_ts)
    IN  Smp(ptp.rtp_wraparound_count * SmpWrap.sec + ts.sec - ep.sec,
            ptp.rtp_wraparound_count * SmpWrap.smp + ts.smp - ep.smp)

\* C35: whatever the number of wraps, rtp_to_ns returns exactly
\* epoch_ptp_ns + (extended_rtp - epoch_rtp_ts) * 10^9 / sample_rate, and
\* the 64-bit product does not overflow.
C35_ExactWithoutOverflow ==
    /\ ~ptph.trapped
    /\ ptph.last_ret # <<>> =>
         ptph.last_ret[1] = NsAdd(ptp.epoch_ptp_ns, NsOfSmp(PtpSampleDelta))

\* ------------------------------------ archive policy: the worker's clock

\* --archive-clock values; the process runs in the UTC time zone, so that
\* localtime_r and gmtime_r agree.
ArchiveClocks == {"localtime", "utc", "ptp_tai"}

\* audyn_archive_get_time_ns: realtime is what clock_gettime(CLOCK_REALTIME)
\* reads.
audyn_archive_get_time_ns(clock_src, ptp_tai_ns, realtime) ==
    CASE clock_src \in {"localtime", "utc"} -> realtime
      [] clock_src = "ptp_tai" -> ptp_tai_ns
      [] OTHER -> Ns(0, 0)

\* get_current_time_ns in archive mode: ptp_now is what
\* audyn_ptp_clock_now_ns reads.  clock_src is a local constant.
get_current_time_ns(ptp_now, realtime) ==
    audyn_archive_get_time_ns("localtime", ptp_now, realtime)

\* Clock readings tried: both sides of the hourly boundary, inside the
\* second 7000 s period, and the start of the next day.
WclkTimes == {Ns(3599, 999999999), Ns(3600, 0), Ns(7000, 500000000),
              Ns(86400, 0)}

\* One call of maybe_rotate with the two clocks read independently.
WorkerRotate ==
    \E realtime \in WclkTimes, ptp_now \in WclkTimes :
       \E now_ns \in {get_current_time_ns(ptp_now, realtime)} :
          /\ MaybeRotateAt(now_ns)
          /\ arch' = [arch EXCEPT !.realtime = <<realtime>>,
                                  !.ptp_tai = <<ptp_now>>,
                                  !.now = <<now_ns>>]

InitAPClock ==
    /\ NoApIdle
    /\ \E period \in ApPeriods, clock_source \in ArchiveClocks :
         /\ ap = audyn_archive_policy_create(period)
         /\ aph = [ApHistInit EXCEPT !.shadow = audyn_archive_policy_create(period)]
         /\ arch = ArchInit(clock_source, "flat")

NextAPClock ==
    \/ WorkerRotate

SpecAPClock == InitAPClock /\ [][NextAPClock]_vars

\* C36: with the archive clock configured as ptp_tai, the time the worker
\* hands to should_rotate and next_path is the PTP clock's reading, not
\* system realtime.
C36_PtpTaiTimeIsPtpReading ==
    (arch.clock_source = "ptp_tai" /\ arch.now # <<>>)
    => /\ arch.now = arch.ptp_tai
       /\ aph.last # <<>> => aph.last[1] = arch.ptp_tai[1]
       /\ (aph.last = <<>> /\ aph.path_now # <<>> /\ aph.ctx.status = 0)
            => aph.path_now = arch.ptp_tai

\* ------------------------------------------ archive policy: the file names

\* --archive-layout values; the custom layout with the format
\* %Y%m%dT%H%M%SZ.
ArchiveLayouts == {"flat", "hierarchy", "combo", "dailydir", "accurate", "custom"}

\* The generate_path_* functions: the path as the sequence of the numbers
\* printed into it (tm_day stands for year, month and day of month).
generate_path_flat(tm) == <<tm.tm_day, tm.tm_hour>>
generate_path_hierarchy(tm) == <<tm.tm_day, tm.tm_hour>>
generate_path_combo(tm) == <<tm.tm_day, tm.tm_hour, tm.tm_day, tm.tm_hour>>
generate_path_dailydir(tm) == <<tm.tm_day, tm.tm_day, tm.tm_hour>>
generate_path_accurate(tm, centisec) ==
    <<tm.tm_day, tm.tm_day, tm.tm_hour, tm.tm_min, tm.tm_sec, centisec>>
generate_path_custom(tm) == <<tm.tm_day, tm.tm_hour, tm.tm_min, tm.tm_sec>>

\* audyn_archive_policy_next_path, line 692-733: the path written to
\* out_path.  The accurate layout takes the actual time, the others the
\* start of the period.
ArchivePath(layout, period_sec, now_ns) ==
    LET b == calculate_period_boundary(now_ns, period_sec)
        a == ns_to_tm(now_ns)
    IN  CASE layout = "flat" -> generate_path_flat(b.tm)
          [] layout = "hierarchy" -> generate_path_hierarchy(b.tm)
          [] layout = "combo" -> generate_path_combo(b.tm)
          [] layout = "dailydir" -> generate_path_dailydir(b.tm)
          [] layout = "accurate" -> generate_path_accurate(a.tm, a.csec)
          [] layout = "custom" -> generate_path_custom(b.tm)

\* rotation_period_sec tried: half an hour, an hour, and a period that does
\* not divide the day.
ApPathPeriods == {1800, 3600, 7000}

\* One call of maybe_rotate; when it opened a file (open_sink: fopen "wb"),
\* the period and the path of that file are recorded.
WorkerRotatePath ==
    \E now_ns \in ApTimes :
       /\ MaybeRotateAt(now_ns)
       /\ arch' = IF ap'.rotations = ap.rotations + 1
                    THEN [arch EXCEPT !.opened = @ \cup
                            {<<ap'.current_period_ns,
                               ArchivePath(arch.layout, ap.rotation_period_sec,
                                           now_ns)>>}]
                    ELSE arch

InitAPPath ==
    /\ NoApIdle
    /\ \E period \in ApPathPeriods, layout \in ArchiveLayouts :
         /\ ap = audyn_archive_policy_create(period)
         /\ aph = [ApHistInit EXCEPT !.shadow = audyn_archive_policy_create(period)]
         /\ arch = ArchInit("utc", layout)

NextAPPath ==
    \/ WorkerRotatePath

SpecAPPath == InitAPPath /\ [][NextAPPath]_vars

\* C37: files opened for two different rotation periods have different
\* paths, for every layout and period, so that opening the file of a new
\* period never truncates the file of an earlier one.
C37_DistinctPeriodsDistinctPaths ==
    \A f, g \in arch.opened : f[1] # g[1] => f[2] # g[2]

\* ------------------------------- archive policy: a clock that never steps back

\* One call of maybe_rotate at a time not before that of the previous call.
WorkerRotateMono ==
    \E now_ns \in ApTimes :
       /\ arch.now # <<>> => NsGe(now_ns, arch.now[1])
       /\ MaybeRotateAt(now_ns)
       /\ arch' = [arch EXCEPT !.now = <<now_ns>>]

InitAPMono ==
    /\ NoApIdle
    /\ \E period \in ApPathPeriods :
         /\ ap = audyn_archive_policy_create(period)
         /\ aph = [ApHistInit EXCEPT !.shadow = audyn_archive_policy_create(period)]
         /\ arch = ArchInit("utc", "flat")

NextAPMono ==
    \/ WorkerRotateMono

SpecAPMono == InitAPMono /\ [][NextAPMono]_vars

\* C38: with a non-decreasing clock, a rotation that fires at
\* now_ns = next_boundary starts the new period exactly at the previous
\* next_boundary (periods tile time), whatever the period length.
C38_PeriodsTileTime ==
    [][(/\ ap.initialized = 1
        /\ ap.rotation_period_sec > 0
        /\ ap'.rotations = ap.rotations + 1
        /\ arch'.now = <<ap.next_boundary_ns>>)
       => ap'.current_period_ns = ap.next_boundary_ns]_vars

\* ------------------------------------ core/worker.c: start, stop, the thread

WorkerRest == <<baseVars, jbVars, apVars, sinkVars, ptpVars, exit_code, wkh, pw>>

\* audyn_worker_start, line 244-247: refused while running is set.
WorkerStartRefused == worker.running # 0

\* audyn_worker_start, line 238-261; created is the outcome of
\* pthread_create.
audyn_worker_start ==
    /\ worker.owner = "idle"
    /\ ~WorkerStartRefused
    /\ \E created \in BOOLEAN :
         IF created
           THEN \E t \in WorkerThreads :
                  /\ worker.th[t] = "none"
                  /\ \A u \in WorkerThreads : u < t => worker.th[u] # "none"
                  /\ worker' = [worker EXCEPT !.running = 1, !.started = 1,
                                              !.thread = t, !.th[t] = "open"]
           ELSE worker' = [worker EXCEPT !.running = 0, !.started = 1,
                                         !.status = 1]
    /\ UNCHANGED WorkerRest

\* audyn_worker_stop, line 263-281, up to the call of pthread_join: nothing
\* to do when never started; else clear running and join.
WorkerStopCall ==
    /\ worker.owner = "idle"
    /\ worker.started = 1
    /\ worker' = [worker EXCEPT !.running = 0, !.owner = "join"]
    /\ UNCHANGED WorkerRest

\* pthread_join returns once the thread of the handle has returned; then
\* started is cleared (line 274-275, 280-282).  A handle that is zero or
\* names a thread already joined is not joinable: the call fails at once or
\* the process dies.
WorkerStopJoin ==
    /\ worker.owner = "join"
    /\ IF worker.thread \in WorkerThreads
            /\ worker.th[worker.thread] # "joined"
         THEN /\ worker.th[worker.thread] = "done"
              /\ worker' = [worker EXCEPT !.th[worker.thread] = "joined",
                                          !.started = 0, !.owner = "idle"]
         ELSE \E dies \in BOOLEAN :
                worker' = IF dies THEN [worker EXCEPT !.owner = "crashed"]
                          ELSE [worker EXCEPT !.started = 0, !.owner = "idle"]
    /\ UNCHANGED WorkerRest

\* worker_main, line 87-96: the sink is opened; on failure the thread sets
\* the error, clears running and returns.
WorkerThreadOpen(t) ==
    /\ worker.owner # "crashed"
    /\ worker.th[t] = "open"
    /\ \E opened \in BOOLEAN :
         worker' = IF opened THEN [worker EXCEPT !.th[t] = "loop"]
                   ELSE [worker EXCEPT !.th[t] = "done", !.status = 1,
                                       !.running = 0]
    /\ UNCHANGED WorkerRest

\* worker_main, line 102-126: the loop ends when running is clear, or when
\* a write fails, in which case the thread clears running itself.
WorkerThreadLoop(t) ==
    /\ worker.owner # "crashed"
    /\ worker.th[t] = "loop"
    /\ IF worker.running = 0
         THEN worker' = [worker EXCEPT !.th[t] = "drain"]
         ELSE worker' = [worker EXCEPT !.th[t] = "drain", !.status = 1,
                                       !.running = 0]
    /\ UNCHANGED WorkerRest

\* worker_main, line 128-160: drain, close the sink, return.
WorkerThreadReturn(t) ==
    /\ worker.owner # "crashed"
    /\ worker.th[t] = "drain"
    /\ worker' = [worker EXCEPT !.th[t] = "done"]
    /\ UNCHANGED WorkerRest

WorkerThreadStep ==
    \E t \in WorkerThreads :
       \/ WorkerThreadOpen(t)
       \/ WorkerThreadLoop(t)
       \/ WorkerThreadReturn(t)

InitWorker ==
    /\ BaseIdle
    /\ JbIdle
    /\ SideIdle

NextWorker ==
    \/ audyn_worker_start
    \/ WorkerStopCall
    \/ WorkerStopJoin
    \/ WorkerThreadStep

SpecWorker == InitWorker /\ [][NextWorker]_vars

\* Threads created by start and not yet joined.
WorkerUnjoined ==
    {t \in WorkerThreads : worker.th[t] \in {"open", "loop", "drain", "done"}}

\* C39: a worker object never has two threads alive or unjoined at once.
C39_AtMostOneThreadUnjoined == Cardinality(WorkerUnjoined) <= 1

\* ------------------------------------------- PipeWire input: on_process

\* Callbacks in one run; the capacity S_max the pool's frames are created
\* with; the buffer sizes PipeWire delivers, in sample-frames: empty, less
\* than a frame, a full frame, more than a frame.
MaxPwCallbacks == 3
PwFrameCap == 2
PwSizes == {0, 1, PwFrameCap, PwFrameCap + 1}

pwRest == <<poolVars, queueVars, pipeHist, jbVars, apVars, sinkVars, ptpVars,
            aes, wctx, g_stop, main_pc, exit_code, wkh, worker>>

\* on_process, line 100-128: the callback is counted; an empty buffer is
\* dropped, any other goes on to audyn_frame_acquire.
PwProcess ==
    /\ pc["rx"] = "pw_idle"
    /\ pw.callbacks < MaxPwCallbacks
    /\ \E empty \in BOOLEAN :
         IF empty
           THEN /\ pw' = [pw EXCEPT !.callbacks = @ + 1, !.drops_empty = @ + 1]
                /\ UNCHANGED <<pc, lv>>
           ELSE /\ pw' = [pw EXCEPT !.callbacks = @ + 1]
                /\ Goto("rx", "acq_load", [NoLocals EXCEPT !.ra = "pw_acquired"])
    /\ UNCHANGED <<pwRest, frame_sf>>

\* on_process, line 123-159: pool exhausted => drop; else the frame's
\* sample_frames is taken as its capacity, at most that many sample-frames
\* are copied, sample_frames is set to the number copied and the frame is
\* pushed.  (The frame's channels are those of the input: both come from
\* the same command-line value.)
PwAcquired ==
    /\ pc["rx"] = "pw_acquired"
    /\ LET f == lv["rx"].frame IN
       IF f = NULL
         THEN /\ pw' = [pw EXCEPT !.drops_pool = @ + 1]
              /\ Goto("rx", "pw_idle", NoLocals)
              /\ UNCHANGED frame_sf
         ELSE \E nframes_in \in PwSizes \ {0} :
                LET nframes_cap == frame_sf[f]
                    nframes_to_copy == IF nframes_in > nframes_cap
                                         THEN nframes_cap ELSE nframes_in
                IN  /\ pw' = [pw EXCEPT
                                !.truncations =
                                    IF nframes_in > nframes_cap THEN @ + 1 ELSE @,
                                !.nframes_cap = <<nframes_cap>>]
                    /\ frame_sf' = [frame_sf EXCEPT ![f] = nframes_to_copy]
                    /\ Goto("rx", "push_ld_tail",
                            [NoLocals EXCEPT !.ra = "pw_pushed", !.ptr = f,
                                             !.frame = f, !.snapTail = tail,
                                             !.snapSlots = slots])
    /\ UNCHANGED pwRest

\* on_process, line 161-170: queue full => count and release; accepted =>
\* count the sample-frames captured.
PwPushed ==
    /\ pc["rx"] = "pw_pushed"
    /\ IF lv["rx"].ret = 0
         THEN /\ pw' = [pw EXCEPT !.drops_queue = @ + 1]
              /\ Goto("rx", "rel_load",
                      [NoLocals EXCEPT !.frame = lv["rx"].ptr, !.ra = "pw_idle"])
         ELSE /\ pw' = [pw EXCEPT !.frames_captured = @ + frame_sf[lv["rx"].ptr]]
              /\ Goto("rx", "pw_idle", NoLocals)
    /\ UNCHANGED <<pwRest, frame_sf>>

InitPw ==
    /\ JbIdle
    /\ SideIdle
    /\ PoolInit
    /\ QueueInit(2)
    /\ EnvInit(PwFrameCap)
    /\ pc = [th \in Threads |-> IF th = "rx" THEN "pw_idle" ELSE "wk_start"]
    /\ lv = [th \in Threads |-> NoLocals]

NextPw ==
    \/ PwProcess
    \/ PwAcquired
    \/ PwPushed
    \/ WkOpen
    \/ WkLoop
    \/ WkPopped
    \/ WkDrain
    \/ WkDrained
    \/ \E th \in Threads :
         \/ AcqLoadTop(th)
         \/ AcqReadSlot(th)
         \/ AcqStoreTop(th)
         \/ RelLoadTop(th)
         \/ RelWriteSlot(th)
         \/ RelStoreTop(th)
         \/ PushLoadTail(th)
         \/ PushLoadHead(th)
         \/ PushWriteSlot(th)
         \/ PushStoreTail(th)
         \/ PopLoadHead(th)
         \/ PopLoadTail(th)
         \/ PopReadSlot(th)
         \/ PopStoreHead(th)

SpecPw == InitPw /\ [][NextPw]_vars

\* C40: every frame the producer acquires offers its creation-time
\* capacity S_max, whatever earlier uses of the frame carried.
C40_FullCapacityOffered ==
    pw.nframes_cap # <<>> => pw.nframes_cap[1] = PwFrameCap

====
